---- MODULE Spec2Model ----
(***************************************************************************)
(* Model of the security-intelligence engine of src/core/                  *)
(* security_intelligence.py (SecurityIntelligenceEngine): indicator and    *)
(* pattern checks, behavioural anomalies, per-batch event correlation,     *)
(* incident processing, the threat summary and cleanup.                    *)
(*                                                                         *)
(* Conventions.  Confidences are Python floats in [0,1]; they are kept as  *)
(* integers in thousandths (0.3 is 300).  Every sum, product and quotient  *)
(* the code computes on the modelled inputs was evaluated in CPython and   *)
(* compares with the thresholds exactly as the thousandths do.  Times are  *)
(* integers in seconds; `now` is datetime.now().                           *)
(***************************************************************************)
EXTENDS Integers, Sequences, FiniteSets, TLC

VARIABLES
    network_events,      \* self.network_events: list of NetworkEvent
    incidents_history,   \* self.incidents_history: list of SecurityIncident
    active_threats,      \* self.active_threats: incident_id -> SecurityIncident
    now,                 \* the wall clock read by datetime.now()
    hash_seed,           \* the interpreter's string-hash seed (fixed per process)
    returned,            \* what the last analyze_network_traffic call returned
    calls,               \* number of analyze_network_traffic calls made
    probe,               \* argument of the pure function under evaluation
    out,                 \* its result
    alert_callback,      \* self.alert_callback
    voice_callback,      \* self.voice_callback
    tasks,               \* the analyze_network_traffic coroutines in progress
    dispatched,          \* one record per incident processed: who was called
    registrations,       \* number of set_alert_callback/set_voice_callback calls
    threat_intel_db,     \* self.threat_intel_db: the addresses, domains, hashes listed
    indicators_cache,    \* self.indicators_cache: value -> ThreatIndicator
    indicators_db,       \* ThreatAnalyzer.indicators_db: value -> ThreatIndicator
    baseline_profiles,   \* AdvancedThreatDetector.baseline_profiles: entity -> profile
    event_history,       \* AdvancedThreatDetector.event_history: list of SecurityEvent
    observations,        \* every observation analysed so far, per entity (bookkeeping)
    operations           \* number of store updates and of events analysed so far

vars == <<network_events, incidents_history, active_threats, now, hash_seed,
          returned, calls, probe, out, alert_callback, voice_callback, tasks,
          dispatched, registrations, threat_intel_db, indicators_cache,
          indicators_db, baseline_profiles, event_history, observations,
          operations>>

\* the indicator stores and the behavioural detector
aux_vars == <<threat_intel_db, indicators_cache, indicators_db,
              baseline_profiles, event_history, observations, operations>>

\* the state of callback dispatch and of the coroutines
cb_vars == <<alert_callback, voice_callback, tasks, dispatched, registrations>>

-----------------------------------------------------------------------------
(* Bounds of the model *)

MaxCalls == 2
MaxTicks == 2
MaxTasks == 2
MaxRegistrations == 2

MaxUpdates == 2

MaxEvents == 3

\* the capacity the size of the stores is compared with
StoreCapacity == 2

-----------------------------------------------------------------------------
(* Enumerations *)

ThreatLevel == <<"minimal", "low", "medium", "high", "critical", "catastrophic">>

LevelRank(l) == CHOOSE i \in 1..Len(ThreatLevel) : ThreatLevel[i] = l

AttackVector == <<"malware", "phishing", "ransomware", "apt", "ddos",
                  "sql_injection", "xss", "privilege_escalation",
                  "data_exfiltration", "insider_threat", "social_engineering",
                  "zero_day">>

Min(a, b) == IF a <= b THEN a ELSE b

Max(a, b) == IF a >= b THEN a ELSE b

None == "None"

-----------------------------------------------------------------------------
(* Configuration set by __init__ and the loaders *)

detection_thresholds ==
    [low |-> 300, medium |-> 500, high |-> 700, critical |-> 850,
     catastrophic |-> 950]

malicious_ips == {"192.168.1.100", "10.0.0.50", "172.16.0.10",
                  "185.220.100.240", "185.220.101.1"}

malicious_domains == {"malware-example.com", "phishing-site.org",
                      "trojan-download.net", "botnet-command.ru"}

malware_hashes == {"d41d8cd98f00b204e9800998ecf8427e",
                   "5d41402abc4b2a76b9719d911017c592",
                   "098f6bcd4621d373cade4e832627b4f6"}

\* category -> number of patterns, in the dict's (insertion) order
PatternTypes == <<"sql_injection", "xss", "command_injection", "suspicious_activity">>

PatternCount(pattern_type) ==
    CASE pattern_type = "sql_injection" -> 6
      [] pattern_type = "xss" -> 6
      [] pattern_type = "command_injection" -> 5
      [] pattern_type = "suspicious_activity" -> 6

behavioral_baselines ==
    [normal_login_hours |-> <<8, 18>>,
     normal_data_transfer_mb |-> 100,
     normal_geo_locations |-> {"FR", "EU"},
     suspicious_user_agents |-> <<"sqlmap", "nikto", "nmap", "masscan", "zap">>]

-----------------------------------------------------------------------------
(* The texts of the model and what re.finditer(pattern, text, re.IGNORECASE) *)
(* yields on them: the number of matches of the i-th pattern of a category,  *)
(* or -1 where re.compile raises re.error (command_injection's 4th pattern,  *)
(* r"(`|\\$\\()", is not a valid expression).  Counts were computed with     *)
(* CPython's re on these very strings.                                       *)

Texts == {"/admin/login?id=1' OR '1'='1", "/index.html",
          "/search?q=union select name from users",
          "/p?x=<script>alert(1)</script>", "/run?cmd=a;ls", "/it's",
          "/q?a='--#", "failed login attempts", "/x;ls;cat;dir", "/dl?u=curl",
          "incident: ransomware backdoor exploit phishing",
          "quelle politique pour le patch de la faille?", "bonjour",
          "incident '--# ransomware backdoor exploit"}

ReError == -1

Zero6 == <<0, 0, 0, 0, 0, 0>>

CmdNone == <<0, 0, 0, ReError, 0>>

FinditerCounts(text) ==
    CASE text = "/admin/login?id=1' OR '1'='1" ->
           [sql_injection |-> <<4, 1, 0, 0, 0, 0>>, xss |-> Zero6,
            command_injection |-> CmdNone, suspicious_activity |-> Zero6]
      [] text = "/index.html" ->
           [sql_injection |-> Zero6, xss |-> Zero6,
            command_injection |-> CmdNone, suspicious_activity |-> Zero6]
      [] text = "/search?q=union select name from users" ->
           [sql_injection |-> <<0, 0, 1, 0, 0, 0>>, xss |-> Zero6,
            command_injection |-> CmdNone, suspicious_activity |-> Zero6]
      [] text = "/p?x=<script>alert(1)</script>" ->
           [sql_injection |-> Zero6, xss |-> <<1, 0, 0, 0, 0, 0>>,
            command_injection |-> CmdNone, suspicious_activity |-> Zero6]
      [] text = "/run?cmd=a;ls" ->
           [sql_injection |-> <<0, 1, 0, 0, 0, 0>>, xss |-> Zero6,
            command_injection |-> <<1, 0, 0, ReError, 0>>,
            suspicious_activity |-> Zero6]
      [] text = "/it's" ->
           [sql_injection |-> <<1, 0, 0, 0, 0, 0>>, xss |-> Zero6,
            command_injection |-> CmdNone, suspicious_activity |-> Zero6]
      [] text = "/q?a='--#" ->
           [sql_injection |-> <<3, 1, 0, 0, 0, 0>>, xss |-> Zero6,
            command_injection |-> CmdNone, suspicious_activity |-> Zero6]
      [] text = "failed login attempts" ->
           [sql_injection |-> Zero6, xss |-> Zero6,
            command_injection |-> CmdNone,
            suspicious_activity |-> <<0, 1, 0, 0, 0, 0>>]
      [] text = "/x;ls;cat;dir" ->
           [sql_injection |-> Zero6, xss |-> Zero6,
            command_injection |-> <<3, 0, 0, ReError, 0>>,
            suspicious_activity |-> Zero6]
      [] text = "/dl?u=curl" ->
           [sql_injection |-> Zero6, xss |-> Zero6,
            command_injection |-> <<0, 0, 0, ReError, 1>>,
            suspicious_activity |-> Zero6]
      [] text = "incident: ransomware backdoor exploit phishing" ->
           [sql_injection |-> Zero6, xss |-> Zero6,
            command_injection |-> <<0, 0, 0, ReError, 1>>,
            suspicious_activity |-> Zero6]
      [] text = "quelle politique pour le patch de la faille?" ->
           [sql_injection |-> Zero6, xss |-> Zero6,
            command_injection |-> CmdNone, suspicious_activity |-> Zero6]
      [] text = "bonjour" ->
           [sql_injection |-> Zero6, xss |-> Zero6,
            command_injection |-> CmdNone, suspicious_activity |-> Zero6]
      [] text = "incident '--# ransomware backdoor exploit" ->
           [sql_injection |-> <<3, 0, 0, 0, 0, 0>>, xss |-> Zero6,
            command_injection |-> <<0, 0, 0, ReError, 1>>,
            suspicious_activity |-> Zero6]

\* len(list(re.finditer(pattern, text, re.IGNORECASE))) for pattern i of a category
match_count(pattern_type, i, text) == FinditerCounts(text)[pattern_type][i]

-----------------------------------------------------------------------------
(* Pattern matching *)

\* `if matches:` where matches is the iterator re.finditer returned: an
\* iterator object is true whatever it will yield
iterator_truthy(count) == TRUE

pattern_confidence(count) == Min(900, 300 + count * 200)

\* The inner loop of _check_malicious_patterns over one category's patterns,
\* from pattern i on: the pair appended (if any) and whether re raised.
RECURSIVE scan_patterns(_, _, _)
scan_patterns(pattern_type, i, text) ==
    IF i > PatternCount(pattern_type)
    THEN [raised |-> FALSE, found |-> <<>>]
    ELSE IF match_count(pattern_type, i, text) = ReError
    THEN [raised |-> TRUE, found |-> <<>>]
    ELSE IF iterator_truthy(match_count(pattern_type, i, text))
    THEN [raised |-> FALSE,
          found |-> << <<pattern_type,
                         pattern_confidence(match_count(pattern_type, i, text))>> >>]
    ELSE scan_patterns(pattern_type, i + 1, text)

RECURSIVE scan_types(_, _)
scan_types(k, text) ==
    IF k > Len(PatternTypes)
    THEN [raised |-> FALSE, found |-> <<>>]
    ELSE LET head == scan_patterns(PatternTypes[k], 1, text)
             rest == scan_types(k + 1, text)
         IN  [raised |-> head.raised \/ rest.raised,
              found |-> head.found \o rest.found]

\* _check_malicious_patterns(text): list of (pattern_type, confidence);
\* an exception anywhere returns []
check_malicious_patterns(text) ==
    LET r == scan_types(1, text)
    IN  IF r.raised THEN <<>> ELSE r.found

-----------------------------------------------------------------------------
(* Threat level and recommended actions *)

\* _calculate_threat_level with the comparison against the HIGH threshold
\* turned round (<= for >=)
calculate_threat_level_inverted(confidence) ==
    IF confidence >= detection_thresholds.catastrophic THEN "catastrophic"
    ELSE IF confidence >= detection_thresholds.critical THEN "critical"
    ELSE IF confidence <= detection_thresholds.high THEN "high"
    ELSE IF confidence >= detection_thresholds.medium THEN "medium"
    ELSE "low"

calculate_threat_level(confidence) ==
    IF confidence >= detection_thresholds.catastrophic THEN "catastrophic"
    ELSE IF confidence >= detection_thresholds.critical THEN "critical"
    ELSE IF confidence >= detection_thresholds.high THEN "high"
    ELSE IF confidence >= detection_thresholds.medium THEN "medium"
    ELSE "low"

ResponseAction == <<"monitor", "alert", "block", "isolate", "quarantine", "emergency_shutdown", "forensic_capture", "user_notification">>

\* the list _generate_recommended_actions builds before it removes duplicates
recommended_actions_list(threat_level, attack_vector) ==
    <<"monitor", "alert">>
    \o (IF threat_level \in {"high", "critical", "catastrophic"}
        THEN <<"block", "forensic_capture">> ELSE <<>>)
    \o (IF threat_level \in {"critical", "catastrophic"}
        THEN <<"isolate", "user_notification">> ELSE <<>>)
    \o (IF threat_level = "catastrophic" THEN <<"emergency_shutdown">> ELSE <<>>)
    \o (IF attack_vector = "malware" THEN <<"quarantine">>
        ELSE IF attack_vector = "data_exfiltration" THEN <<"block">>
        ELSE IF attack_vector = "ransomware"
        THEN <<"isolate", "emergency_shutdown">>
        ELSE <<>>)

\* iteration order of a set of ResponseAction members (hash order, per process)
action_order(seed) ==
    IF seed = 0 THEN ResponseAction
    ELSE [i \in 1..Len(ResponseAction) |-> ResponseAction[Len(ResponseAction) + 1 - i]]

\* a list handed on as it is, duplicates included
list_as_is(actions, seed) == actions

\* list(set(actions)): every member once, in the set's iteration order
list_of_set(actions, seed) ==
    SelectSeq(action_order(seed),
              LAMBDA a : \E i \in DOMAIN actions : actions[i] = a)

\* _generate_recommended_actions(threat_level, attack_vector)
generate_recommended_actions(threat_level, attack_vector, seed) ==
    list_of_set(recommended_actions_list(threat_level, attack_vector), seed)

-----------------------------------------------------------------------------
(* Addresses of the model *)

SourceIPs == <<"185.220.100.240", "8.8.8.8">>

DestinationIPs == <<"192.168.1.100", "8.8.4.4", "1.1.1.1", "9.9.9.9",
                    "1.0.0.1", "208.67.222.222", "4.2.2.2">>

\* ipaddress.ip_address(ip).is_private on the addresses of the model
is_private(ip) == ip \in {"192.168.1.100", "10.0.0.50", "172.16.0.10"}

get_ip_geolocation(ip) ==
    IF is_private(ip) THEN "PRIVATE"
    ELSE IF ip \in {"185.220.100.240", "185.220.101.1"} THEN "RU"
    ELSE "FR"

\* hash(ip) % 10000: str hashes are salted per process; under seed 1 the two
\* source addresses collide modulo 10000
hash_mod(seed, ip) ==
    CASE ip = "185.220.100.240" -> 4711
      [] ip = "8.8.8.8" -> IF seed = 0 THEN 815 ELSE 4711
      [] OTHER -> 1

\* iteration order of a set of AttackVector members (hash order, per process)
set_order(seed) ==
    IF seed = 0 THEN AttackVector
    ELSE [i \in 1..Len(AttackVector) |-> AttackVector[Len(AttackVector) + 1 - i]]

-----------------------------------------------------------------------------
(* NetworkEvent: the fields the engine reads.  ts_kind tells what the         *)
(* timestamp field holds (the dataclass checks no types):                    *)
(*   "naive"   a datetime without tzinfo, as datetime.now() yields;          *)
(*   "aware"   a datetime with tzinfo, as datetime.fromisoformat yields for  *)
(*             "...+00:00": comparing it with, or subtracting it from, a     *)
(*             naive datetime raises TypeError;                              *)
(*   "invalid" no datetime at all: .hour, .strftime and .isoformat raise     *)
(*             AttributeError, comparison with a datetime raises TypeError.  *)

TimestampKinds == {"naive", "aware", "invalid"}

NetworkEvent(ts, kind, src, dst, bytes, uri, ua) ==
    [timestamp |-> ts, ts_kind |-> kind, source_ip |-> src,
     destination_ip |-> dst, bytes_transferred |-> bytes, uri |-> uri,
     user_agent |-> ua]

UserAgents == {None, "sqlmap/1.0", "Mozilla/5.0"}

\* suspicious_ua.lower() in event.user_agent.lower()
ua_contains(suspicious_ua, user_agent) ==
    suspicious_ua = "sqlmap" /\ user_agent = "sqlmap/1.0"

LastN(seq, n) ==
    IF Len(seq) <= n THEN seq ELSE SubSeq(seq, Len(seq) - n + 1, Len(seq))

RECURSIVE SeqSum(_)
SeqSum(s) == IF s = <<>> THEN 0 ELSE Head(s) + SeqSum(Tail(s))

ThreatIndicator(type, value, confidence, threat_type, source, reputation) ==
    [indicator_type |-> type, value |-> value, confidence |-> confidence,
     threat_types |-> <<threat_type>>, source |-> source,
     reputation_score |-> reputation]

attack_vector_map(pattern_type) ==
    CASE pattern_type = "sql_injection" -> "sql_injection"
      [] pattern_type = "xss" -> "xss"
      [] pattern_type = "command_injection" -> "privilege_escalation"
      [] OTHER -> "malware"

\* _check_threat_indicators(event)
check_threat_indicators(event) ==
    LET src == IF event.source_ip \in malicious_ips
               THEN <<ThreatIndicator("ip", event.source_ip, 900, "malware",
                                      "threat_intel_db", 100)>>
               ELSE <<>>
        dst == IF event.destination_ip \in malicious_ips
               THEN <<ThreatIndicator("ip", event.destination_ip, 800,
                                      "data_exfiltration", "threat_intel_db", 200)>>
               ELSE <<>>
        hits == IF event.uri # None /\ event.uri # ""
                THEN check_malicious_patterns(event.uri) ELSE <<>>
        pat == [k \in 1..Len(hits) |->
                   ThreatIndicator("url_pattern", event.uri, hits[k][2],
                                   attack_vector_map(hits[k][1]),
                                   "pattern_detection", 1000 - hits[k][2])]
    IN  src \o dst \o pat

\* _get_recent_events_from_ip(ip, minutes) over self.network_events at time t:
\* comparing a timestamp that is no naive datetime with the cutoff raises
get_recent_events_from_ip(evs, ip, minutes, t) ==
    LET window == LastN(evs, 1000)
        cutoff_time == t - minutes * 60
    IN  [raised |-> \E i \in DOMAIN window :
                        window[i].source_ip = ip /\ window[i].ts_kind # "naive",
         events |-> SelectSeq(window, LAMBDA e : e.source_ip = ip /\ e.ts_kind = "naive"
                                                 /\ e.timestamp > cutoff_time)]

hour_of(ts) == (ts \div 3600) % 24

\* _detect_behavioral_anomalies(event); any exception returns []
detect_behavioral_anomalies(event, evs, t) ==
    LET recent == get_recent_events_from_ip(evs, event.source_ip, 5, t)
        source_geo == get_ip_geolocation(event.source_ip)
    IN  IF event.ts_kind = "invalid" \/ recent.raised THEN <<>>
        ELSE (IF hour_of(event.timestamp) < behavioral_baselines.normal_login_hours[1]
                 \/ hour_of(event.timestamp) > behavioral_baselines.normal_login_hours[2]
              THEN <<"activity_outside_normal_hours">> ELSE <<>>)
          \o (IF event.bytes_transferred >
                    behavioral_baselines.normal_data_transfer_mb * 1024 * 1024
              THEN <<"excessive_data_transfer">> ELSE <<>>)
          \o (IF source_geo \notin behavioral_baselines.normal_geo_locations
              THEN <<"suspicious_geographic_location">> ELSE <<>>)
          \o (IF event.user_agent # None
                 /\ \E k \in DOMAIN behavioral_baselines.suspicious_user_agents :
                       ua_contains(behavioral_baselines.suspicious_user_agents[k],
                                   event.user_agent)
              THEN <<"suspicious_user_agent">> ELSE <<>>)
          \o (IF Len(recent.events) > 50
              THEN <<"high_frequency_requests">> ELSE <<>>)

-----------------------------------------------------------------------------
(* Incidents *)

SecurityIncident(id, level, vector, title, indicators, assets, timeline, confidence, t, seed) ==
    [incident_id |-> id, threat_level |-> level, attack_vector |-> vector,
     title |-> title, indicators |-> indicators, affected_assets |-> assets,
     attack_timeline |-> timeline,
     recommended_actions |-> generate_recommended_actions(level, vector, seed),
     confidence_score |-> confidence, created_at |-> t, updated_at |-> t,
     status |-> "new"]

incident_id(prefix, t, seed, ip) == <<prefix, t, hash_mod(seed, ip)>>

RECURSIVE SeqMax(_)
SeqMax(s) == IF Len(s) = 1 THEN s[1] ELSE Max(Head(s), SeqMax(Tail(s)))

RECURSIVE SeqMin(_)
SeqMin(s) == IF Len(s) = 1 THEN s[1] ELSE Min(Head(s), SeqMin(Tail(s)))

\* attack_vectors.count(v)
count_of(attack_vectors, v) ==
    Cardinality({i \in DOMAIN attack_vectors : attack_vectors[i] = v})

\* max(set(attack_vectors), key=attack_vectors.count): the first member, in
\* the set's iteration order, with the greatest count
primary_vector_of(attack_vectors, seed) ==
    IF attack_vectors = <<>> THEN "malware"
    ELSE LET order == set_order(seed)
             best == SeqMax([i \in DOMAIN attack_vectors |->
                                count_of(attack_vectors, attack_vectors[i])])
             first == CHOOSE i \in DOMAIN order :
                         /\ count_of(attack_vectors, order[i]) = best
                         /\ \A j \in 1..(i - 1) :
                               count_of(attack_vectors, order[j]) # best
         IN  order[first]

\* _create_incident_from_network_event raises when the timestamp is no
\* datetime (strftime in the description, isoformat in the timeline)
create_incident_from_network_event_raises(event) == event.ts_kind = "invalid"

create_incident_from_network_event(event, indicators, t, seed) ==
    LET max_confidence == SeqMax([i \in DOMAIN indicators |-> indicators[i].confidence])
        threat_level == calculate_threat_level(max_confidence)
        attack_vectors == [i \in DOMAIN indicators |-> indicators[i].threat_types[1]]
        primary_vector == primary_vector_of(attack_vectors, seed)
    IN  SecurityIncident(incident_id("INC", t, seed, event.source_ip),
                         threat_level, primary_vector,
                         <<"suspicious_activity", event.source_ip>>,
                         indicators, <<event.destination_ip>>,
                         <<[timestamp |-> event.timestamp,
                            event |-> "Network event detected"]>>,
                         max_confidence, t, seed)

create_incident_from_anomalies(event, anomalies, t, seed) ==
    LET confidence == Min(900, Len(anomalies) * 200)
        threat_level == calculate_threat_level(confidence)
        indicators == [i \in DOMAIN anomalies |->
                          ThreatIndicator("behavioral_anomaly", anomalies[i],
                                          confidence, "insider_threat",
                                          "behavioral_analysis", 1000 - confidence)]
    IN  SecurityIncident(incident_id("ANO", t, seed, event.source_ip),
                         threat_level, "insider_threat",
                         <<"behavioral_anomalies", event.source_ip>>,
                         indicators, <<event.source_ip, event.destination_ip>>,
                         <<[timestamp |-> event.timestamp,
                            event |-> "Behavioral anomalies detected"]>>,
                         confidence, t, seed)

-----------------------------------------------------------------------------
(* Correlation of the events of one call *)

\* the distinct members of a list in order of first occurrence
RECURSIVE first_occurrences(_, _)
first_occurrences(s, seen) ==
    IF s = <<>> THEN <<>>
    ELSE IF Head(s) \in seen THEN first_occurrences(Tail(s), seen)
    ELSE <<Head(s)>> \o first_occurrences(Tail(s), seen \cup {Head(s)})

\* the keys of ip_groups: the source addresses of the batch (dict order)
group_keys(events) ==
    first_occurrences([i \in DOMAIN events |-> events[i].source_ip], {})

ip_group(events, source_ip) == SelectSeq(events, LAMBDA e : e.source_ip = source_ip)

time_span(ip_events) ==
    SeqMax([i \in DOMAIN ip_events |-> ip_events[i].timestamp])
    - SeqMin([i \in DOMAIN ip_events |-> ip_events[i].timestamp])

\* the confidence without its cap of 0.8
campaign_confidence_uncapped(count) == Min(1000, (count * 1000) \div 20)

campaign_confidence(count) == Min(800, (count * 1000) \div 20)

\* the byte limit read in kilobytes
campaign_vector_kilobytes(unique_destinations, total_bytes) ==
    IF Cardinality(unique_destinations) > 5 THEN "ddos"
    ELSE IF total_bytes > 100 * 1024 THEN "data_exfiltration"
    ELSE "apt"

campaign_vector(unique_destinations, total_bytes) ==
    IF Cardinality(unique_destinations) > 5 THEN "ddos"
    ELSE IF total_bytes > 100 * 1024 * 1024 THEN "data_exfiltration"
    ELSE "apt"

create_coordinated_attack_incident(source_ip, events, t, seed) ==
    LET unique_destinations == {events[i].destination_ip : i \in DOMAIN events}
        total_bytes == SeqSum([i \in DOMAIN events |-> events[i].bytes_transferred])
        confidence == campaign_confidence(Len(events))
        threat_level == calculate_threat_level(confidence)
        attack_vector == campaign_vector(unique_destinations, total_bytes)
        first10 == SubSeq(events, 1, Min(10, Len(events)))
    IN  SecurityIncident(incident_id("CAM", t, seed, source_ip),
                         threat_level, attack_vector,
                         <<"campaign", source_ip>>,
                         <<ThreatIndicator("coordinated_attack", source_ip,
                                           confidence, attack_vector,
                                           "correlation_analysis", 100)>>,
                         \* list(set(...)): kept here in order of first occurrence
                         first_occurrences([i \in DOMAIN events |->
                                               events[i].destination_ip], {}),
                         [i \in DOMAIN first10 |->
                             [timestamp |-> first10[i].timestamp,
                              event |-> "Request"]],
                         confidence, t, seed)

\* the test of _correlate_events on one group: more than 10 events, spanning
\* less than 300 seconds
is_campaign(ip_events) ==
    Len(ip_events) > 10 /\ time_span(ip_events) < 300

\* max()/min() over the timestamps, or their difference, raise when one of the
\* group's timestamps is no datetime or when naive and aware ones are mixed
span_raises(ip_events) ==
    /\ Len(ip_events) > 10
    /\ \/ \E i \in DOMAIN ip_events : ip_events[i].ts_kind = "invalid"
       \/ \E i, j \in DOMAIN ip_events : ip_events[i].ts_kind # ip_events[j].ts_kind

RECURSIVE correlate_groups(_, _, _, _)
correlate_groups(keys, events, t, seed) ==
    IF keys = <<>> THEN [raised |-> FALSE, incidents |-> <<>>]
    ELSE LET ip_events == ip_group(events, Head(keys))
             rest == correlate_groups(Tail(keys), events, t, seed)
         IN  IF span_raises(ip_events)
             THEN [raised |-> TRUE, incidents |-> <<>>]
             ELSE [raised |-> rest.raised,
                   incidents |->
                      (IF is_campaign(ip_events)
                       THEN <<create_coordinated_attack_incident(
                                  Head(keys), ip_events, t, seed)>>
                       ELSE <<>>) \o rest.incidents]

\* _correlate_events(events); any exception returns []
correlate_events(events, t, seed) ==
    LET r == correlate_groups(group_keys(events), events, t, seed)
    IN  IF r.raised THEN <<>> ELSE r.incidents

-----------------------------------------------------------------------------
(* analyze_network_traffic and _process_security_incident *)

\* the loop over the events of the call, from event k on; evs is
\* self.network_events after the extend
RECURSIVE analyze_events(_, _, _, _, _)
analyze_events(events, k, evs, t, seed) ==
    IF k > Len(events) THEN [raised |-> FALSE, incidents |-> <<>>]
    ELSE LET event == events[k]
             threat_indicators == check_threat_indicators(event)
             anomalies == detect_behavioral_anomalies(event, evs, t)
             rest == analyze_events(events, k + 1, evs, t, seed)
         IN  IF threat_indicators # <<>>
                /\ create_incident_from_network_event_raises(event)
             THEN [raised |-> TRUE, incidents |-> <<>>]
             ELSE [raised |-> rest.raised,
                   incidents |->
                      (IF threat_indicators # <<>>
                       THEN <<create_incident_from_network_event(
                                  event, threat_indicators, t, seed)>>
                       ELSE <<>>)
                      \o (IF anomalies # <<>>
                          THEN <<create_incident_from_anomalies(
                                     event, anomalies, t, seed)>>
                          ELSE <<>>)
                      \o rest.incidents]

\* the incidents analyze_network_traffic detects, in order, and whether the
\* except clause of the call was taken
detected_incidents(events, evs, t, seed) ==
    LET per_event == analyze_events(events, 1, evs, t, seed)
    IN  IF per_event.raised THEN [raised |-> TRUE, incidents |-> <<>>]
        ELSE [raised |-> FALSE,
              incidents |-> per_event.incidents \o correlate_events(events, t, seed)]

\* self.active_threats[incident.incident_id] = incident
active_put(active, incident) ==
    [id \in DOMAIN active \cup {incident.incident_id} |->
        IF id = incident.incident_id THEN incident ELSE active[id]]

\* _process_security_incident for each incident of the list, in order
RECURSIVE process_all(_, _, _)
process_all(incidents, history, active) ==
    IF incidents = <<>> THEN [history |-> history, active |-> active]
    ELSE process_all(Tail(incidents), Append(history, Head(incidents)),
                     active_put(active, Head(incidents)))

-----------------------------------------------------------------------------
(* Text analysis: intent and risk score of a text input *)

\* the intents of _classify_security_intent, in the order of its dictionary
Intents == <<"incident_report", "vulnerability_inquiry", "threat_intelligence",
             "policy_question", "technical_support", "general_security">>

\* for each intent, in that order, the number of its keywords that occur in
\* text.lower() (`keyword in text_lower`)
KeywordHits(text) ==
    CASE text = "incident: ransomware backdoor exploit phishing" ->
           <<1, 0, 0, 0, 0, 0>>
      [] text = "quelle politique pour le patch de la faille?" ->
           <<0, 2, 0, 1, 0, 0>>
      [] text = "incident '--# ransomware backdoor exploit" ->
           <<1, 0, 0, 0, 0, 0>>
      [] OTHER -> Zero6

\* the number of suspicious_terms that occur in text.lower()
suspicious_count(text) ==
    CASE text = "incident: ransomware backdoor exploit phishing" -> 4
      [] text = "incident '--# ransomware backdoor exploit" -> 3
      [] OTHER -> 0

\* _classify_security_intent: the first intent with the highest positive
\* score, "general_inquiry" when no keyword occurs
classify_security_intent(text) ==
    LET score == KeywordHits(text)
        best == SeqMax(score)
    IN  IF best = 0 THEN "general_inquiry"
        ELSE Intents[CHOOSE i \in DOMAIN score :
                        /\ score[i] = best
                        /\ \A j \in 1..(i - 1) : score[j] < best]

\* intent_risk_map.get(intent, 0.0)
intent_risk(intent) ==
    CASE intent = "incident_report" -> 300
      [] intent = "vulnerability_inquiry" -> 200
      [] intent = "threat_intelligence" -> 100
      [] intent = "technical_support" -> 100
      [] OTHER -> 0

\* _calculate_text_risk_score without the final min(1.0, ...)
calculate_text_risk_score_unclamped(text, malicious_patterns, intent) ==
    (IF malicious_patterns # <<>>
     THEN (SeqMax([i \in DOMAIN malicious_patterns |-> malicious_patterns[i][2]])
           * 6) \div 10
     ELSE 0)
    + intent_risk(intent)
    + Min(300, suspicious_count(text) * 100)

\* _calculate_text_risk_score
calculate_text_risk_score(text, malicious_patterns, intent) ==
    Min(1000,
        (IF malicious_patterns # <<>>
         THEN (SeqMax([i \in DOMAIN malicious_patterns |-> malicious_patterns[i][2]])
               * 6) \div 10
         ELSE 0)
        + intent_risk(intent)
        + Min(300, suspicious_count(text) * 100))

\* analyze_text_input: the fields of the analysis the claims read
analyze_text_input(text) ==
    LET malicious_patterns == check_malicious_patterns(text)
        intent == classify_security_intent(text)
    IN  [malicious_patterns |-> malicious_patterns,
         intent |-> intent,
         risk_score |-> calculate_text_risk_score(text, malicious_patterns, intent)]

-----------------------------------------------------------------------------
(* The behavioural detector of advanced_ai_security.py                       *)
(* (AdvancedThreatDetector).  Of the features of an event the model keeps    *)
(* threat_indicators, which the scores read, and content_length; a feature   *)
(* value is an integer, a deviation and a score are in thousandths.          *)

Abs(x) == IF x < 0 THEN -x ELSE x

FeatureKeys == <<"threat_indicators", "content_length">>

\* self.baseline_profiles.get(entity_id, {}) of an entity not seen before;
\* the averages of a profile are kept in thousandths of the features' units
NoBaseline == [history |-> 0, avg_features |-> [threat_indicators |-> 0,
                                                 content_length |-> 0]]

\* the relative deviation of one feature, for the features whose baseline
\* average is positive
RECURSIVE feature_deviations(_, _, _)
feature_deviations(features, baseline, k) ==
    IF k > Len(FeatureKeys) THEN <<>>
    ELSE LET key == FeatureKeys[k]
             baseline_value == baseline.avg_features[key]
         IN  (IF baseline_value > 0
              THEN <<(Abs(features[key] * 1000 - baseline_value) * 1000)
                     \div baseline_value>>
              ELSE <<>>)
             \o feature_deviations(features, baseline, k + 1)

\* _calculate_baseline_deviation
calculate_baseline_deviation(features, baseline) ==
    LET deviations == feature_deviations(features, baseline, 1)
    IN  SeqSum(deviations) \div Max(Len(deviations), 1)

\* _classify_behavior_pattern
classify_behavior_pattern(deviation, features) ==
    LET threat_score == features.threat_indicators
    IN  IF threat_score > 5 \/ deviation > 2000 THEN "malicious"
        ELSE IF threat_score > 2 \/ deviation > 1000 THEN "anomalous"
        ELSE IF threat_score > 0 \/ deviation > 500 THEN "suspicious"
        ELSE "normal"

\* _analyze_behavior
analyze_behavior(features, baseline) ==
    IF baseline = NoBaseline
    THEN [pattern |-> "normal", anomaly_score |-> 0, baseline_deviation |-> 0,
          confidence |-> 500]
    ELSE LET deviation == calculate_baseline_deviation(features, baseline)
         IN  [pattern |-> classify_behavior_pattern(deviation, features),
              anomaly_score |->
                  Min((deviation * features.threat_indicators) \div 10, 1000),
              baseline_deviation |-> deviation,
              confidence |-> Min(baseline.history * 10, 1000)]

\* _predict_threat: confidence and risk_score of the prediction
predict_threat(features, behavior) ==
    [confidence |-> (2 * behavior.confidence + behavior.anomaly_score) \div 3,
     risk_score |->
        Min((4 * behavior.anomaly_score + 300 * features.threat_indicators
             + 3 * behavior.baseline_deviation) \div 10, 1000)]

\* analyze_event: the behaviour analysis and the prediction, made only for
\* a suspicious, anomalous or malicious pattern
analyze_event(features, baseline) ==
    LET behavior_analysis == analyze_behavior(features, baseline)
    IN  [behavior |-> behavior_analysis,
         predicted |-> behavior_analysis.pattern
                          \in {"suspicious", "anomalous", "malicious"},
         prediction |->
            IF behavior_analysis.pattern \in {"suspicious", "anomalous", "malicious"}
            THEN predict_threat(features, behavior_analysis)
            ELSE [confidence |-> 0, risk_score |-> 0]]

-----------------------------------------------------------------------------
(* The indicator analysis of security/threat_analyzer.py (ThreatAnalyzer)    *)

Indicators == <<"1.2.3.4", "example.com", "cmd.exe",
                "powershell download 10.0.0.1 d41d8cd98f00b204e9800998ecf8427e.tmp">>

\* the number of suspicious_patterns of _analyze_behavior that re.search
\* finds in the indicator
suspicious_pattern_count(indicator) ==
    CASE indicator = "1.2.3.4" -> 1
      [] indicator = "example.com" -> 0
      [] indicator = "cmd.exe" -> 1
      [] OTHER -> 5

\* _analyze_behavior of an indicator: 10 per pattern found
indicator_behavior(indicator) ==
    [suspicious |-> suspicious_pattern_count(indicator) > 0,
     score |-> suspicious_pattern_count(indicator) * 10 * 1000,
     confidence |-> Min((suspicious_pattern_count(indicator) * 10 * 1000) \div 50,
                        1000)]

\* an entry of indicators_db is made by _parse_threat_feed: severity
\* "medium" (weight 3) and confidence 0.8
feed_severity_weight == 3

feed_confidence == 800

\* the loop of analyze_indicators: the threat score accumulated
RECURSIVE threat_score_of(_, _)
threat_score_of(indicators, db) ==
    IF indicators = <<>> THEN 0
    ELSE (IF Head(indicators) \in db
          THEN feed_severity_weight * feed_confidence ELSE 0)
         + (IF indicator_behavior(Head(indicators)).suspicious
            THEN indicator_behavior(Head(indicators)).score ELSE 0)
         + threat_score_of(Tail(indicators), db)

\* analyze_indicators: risk_score, on the analyzer's scale of 0 to 100
analyze_indicators(indicators, db) ==
    [indicators_analyzed |-> Len(indicators),
     risk_score |->
        IF indicators # <<>>
        THEN Min(threat_score_of(indicators, db) \div Len(indicators),
                 100 * 1000)
        ELSE 0]

-----------------------------------------------------------------------------
(* The batches of the model.  A shape describes one list of events passed to *)
(* analyze_network_traffic at time t: n events of one source, the first n-1  *)
(* stamped t - span and the last one t, sent round-robin to nd destinations  *)
(* starting at DestinationIPs[dfirst]; the first event carries first_bytes   *)
(* and the others 51200 bytes; the timestamp of event number `bad` (0: none) *)
(* is of kind `kind`, the others are naive; `stale` adds one event of the    *)
(* same source stamped t - 1000; `other` adds that many events of the other  *)
(* source, stamped t, of which the first has a timestamp of kind okind.      *)

other_source(src) == IF src = SourceIPs[1] THEN SourceIPs[2] ELSE SourceIPs[1]

MkBatch(shape, t) ==
    [i \in 1..shape.n |->
        NetworkEvent(IF i = shape.n THEN t ELSE t - shape.span,
                     IF i = shape.bad THEN shape.kind ELSE "naive",
                     shape.src,
                     DestinationIPs[shape.dfirst + ((i - 1) % shape.nd)],
                     IF i = 1 THEN shape.first_bytes ELSE 51200,
                     shape.uri, shape.ua)]
    \o [i \in 1..shape.stale |->
           NetworkEvent(t - 1000, "naive", shape.src, DestinationIPs[shape.dfirst],
                        51200, shape.uri, shape.ua)]
    \o [i \in 1..shape.other |->
           NetworkEvent(t, IF i = 1 THEN shape.okind ELSE "naive",
                        other_source(shape.src), DestinationIPs[2],
                        51200, None, None)]

Shape(n, src, nd, span, dfirst, first_bytes, uri, ua, bad, kind) ==
    [n |-> n, src |-> src, nd |-> nd, span |-> span, dfirst |-> dfirst,
     first_bytes |-> first_bytes, uri |-> uri, ua |-> ua, bad |-> bad,
     kind |-> kind, stale |-> 0, other |-> 0, okind |-> "naive"]

Sources == {SourceIPs[i] : i \in DOMAIN SourceIPs}

Injection == "/admin/login?id=1' OR '1'='1"

\* single events: the listed source to an unlisted and to a listed
\* destination, the injection request of the demonstration scenario, the
\* unlisted source to an unlisted and to a listed destination, and events
\* of either source with an aware timestamp
SingleShapes ==
    {Shape(1, SourceIPs[1], 1, 0, 2, 51200, None, None, 0, "naive"),
     Shape(1, SourceIPs[1], 1, 0, 1, 51200, None, None, 0, "naive"),
     Shape(1, SourceIPs[1], 1, 0, 1, 1048576, Injection, "sqlmap/1.0", 0, "naive"),
     Shape(1, SourceIPs[2], 1, 0, 2, 51200, "/index.html", "Mozilla/5.0", 0, "naive"),
     Shape(1, SourceIPs[2], 1, 0, 1, 51200, None, None, 0, "naive"),
     Shape(1, SourceIPs[1], 1, 0, 2, 51200, None, None, 1, "aware"),
     Shape(1, SourceIPs[2], 1, 0, 2, 51200, None, None, 1, "aware")}

\* two events of the listed source, the second with a timestamp that is no
\* datetime
PairShapes ==
    {Shape(2, SourceIPs[1], 1, 0, 2, 51200, None, None, 2, "invalid")}

\* six and eleven events of one source within or at five minutes
GroupShapes ==
    {Shape(6, SourceIPs[2], 6, 299, 2, 51200, None, None, 0, "naive"),
     Shape(11, SourceIPs[2], 6, 299, 2, 51200, None, None, 0, "naive"),
     Shape(11, SourceIPs[2], 6, 300, 2, 51200, None, None, 0, "naive"),
     Shape(11, SourceIPs[2], 1, 299, 2, 51200, None, None, 0, "naive")}

EngineShapes == SingleShapes \cup PairShapes \cup GroupShapes

\* the end-to-end scenario: twenty events of one source within two minutes,
\* 50 KB each, to one destination
ScenarioShapes ==
    {Shape(20, src, 1, span, 2, 51200, None, None, 0, "naive") :
        src \in Sources, span \in {0, 60, 120}}

\* the events of the source the engine recorded in the five minutes before
\* the batch: none, thirty or thirty-one
EarlierCounts == {0, 30, 31}

earlier_events(shape, count, t) ==
    [i \in 1..count |->
        NetworkEvent(t - 200, "naive", shape.src, DestinationIPs[shape.dfirst],
                     51200, None, None)]

-----------------------------------------------------------------------------
(* The engine *)

StartOfRun == 10 * 3600

ticks_taken == ((now - StartOfRun) % 86400) + ((now - StartOfRun) \div 86400)

NoProbe == [fn |-> "none"]

NoResult == [done |-> FALSE]

\* the callbacks a consumer may register: one that returns, one that raises
\* an exception and one that never completes
Callbacks == {"notify", "failing", "stuck"}

callback_outcome(callback) ==
    CASE callback = "notify" -> "returns"
      [] callback = "failing" -> "raises"
      [] callback = "stuck" -> "never"

\* the coroutines of analyze_network_traffic
Tasks == 1..MaxTasks

IdleTask ==
    [pc |-> "idle", events |-> <<>>, incidents |-> <<>>, k |-> 0, d |-> 0,
     awaiting |-> None, failed |-> FALSE]

InitCallbacks ==
    /\ alert_callback = None
    /\ voice_callback = None
    /\ tasks = [task \in Tasks |-> IdleTask]
    /\ dispatched = <<>>
    /\ registrations = 0

\* the stores after initialize(): the simulated feeds are loaded, nothing is
\* cached, no threat feed was downloaded and no entity was observed
InitStores ==
    /\ threat_intel_db = [malicious_ips |-> malicious_ips,
                          malicious_domains |-> malicious_domains,
                          malware_hashes |-> malware_hashes]
    /\ indicators_cache = <<>>
    /\ indicators_db = <<>>
    /\ baseline_profiles = <<>>
    /\ event_history = <<>>
    /\ observations = <<>>
    /\ operations = 0

Init ==
    /\ network_events = <<>>
    /\ incidents_history = <<>>
    /\ active_threats = <<>>
    /\ now = StartOfRun
    /\ hash_seed \in {0, 1}
    /\ returned = <<>>
    /\ calls = 0
    /\ probe = NoProbe
    /\ out = NoResult
    /\ InitCallbacks
    /\ InitStores

\* analyze_network_traffic(events) on an initialised engine
analyze_network_traffic(events) ==
    LET evs == network_events \o events
        d == detected_incidents(events, evs, now, hash_seed)
        p == process_all(d.incidents, incidents_history, active_threats)
    IN  /\ network_events' = evs
        /\ incidents_history' = p.history
        /\ active_threats' = p.active
        /\ returned' = d.incidents
        /\ calls' = calls + 1
        /\ UNCHANGED <<now, hash_seed, aux_vars, probe, out, cb_vars>>

AnalyzeNetworkTraffic ==
    \E shape \in EngineShapes :
        /\ calls < MaxCalls
        /\ analyze_network_traffic(MkBatch(shape, now))

max_history == 10000

\* cleanup() closing the incidents it finds inactive instead of only taking
\* them out of the active set
cleanup_resolving ==
    LET cutoff_time == now - 24 * 3600
        inactive_threats == {id \in DOMAIN active_threats :
                                active_threats[id].updated_at < cutoff_time}
    IN  /\ incidents_history' =
              [i \in DOMAIN incidents_history |->
                  IF incidents_history[i].updated_at < cutoff_time
                  THEN [incidents_history[i] EXCEPT !.status = "resolved"]
                  ELSE incidents_history[i]]
        /\ network_events' = LastN(network_events, max_history)
        /\ active_threats' = [id \in DOMAIN active_threats \ inactive_threats |->
                                 active_threats[id]]
        /\ UNCHANGED <<now, hash_seed, aux_vars, returned, calls, probe, out, cb_vars>>

\* cleanup() with the cutoff comparison off by one (<= for <)
cleanup_inclusive ==
    LET cutoff_time == now - 24 * 3600
        inactive_threats == {id \in DOMAIN active_threats :
                                active_threats[id].updated_at <= cutoff_time}
    IN  /\ incidents_history' = LastN(incidents_history, max_history)
        /\ network_events' = LastN(network_events, max_history)
        /\ active_threats' = [id \in DOMAIN active_threats \ inactive_threats |->
                                 active_threats[id]]
        /\ UNCHANGED <<now, hash_seed, aux_vars, returned, calls, probe, out, cb_vars>>

\* cleanup() keeping all but the last max_history entries ([:-n] for [-n:])
cleanup_wrong_slice ==
    LET cutoff_time == now - 24 * 3600
        inactive_threats == {id \in DOMAIN active_threats :
                                active_threats[id].updated_at < cutoff_time}
    IN  /\ incidents_history' =
              SubSeq(incidents_history, 1, Len(incidents_history) - max_history)
        /\ network_events' =
              SubSeq(network_events, 1, Len(network_events) - max_history)
        /\ active_threats' = [id \in DOMAIN active_threats \ inactive_threats |->
                                 active_threats[id]]
        /\ UNCHANGED <<now, hash_seed, aux_vars, returned, calls, probe, out, cb_vars>>

\* cleanup()
cleanup ==
    LET cutoff_time == now - 24 * 3600
        inactive_threats == {id \in DOMAIN active_threats :
                                active_threats[id].updated_at < cutoff_time}
    IN  /\ incidents_history' = LastN(incidents_history, max_history)
        /\ network_events' = LastN(network_events, max_history)
        /\ active_threats' = [id \in DOMAIN active_threats \ inactive_threats |->
                                 active_threats[id]]
        /\ UNCHANGED <<now, hash_seed, aux_vars, returned, calls, probe, out, cb_vars>>

Cleanup == cleanup

\* the clock advances by a second or by a day
Tick ==
    \E d \in {1, 86400} :
        /\ ticks_taken < MaxTicks
        /\ now' = now + d
        /\ UNCHANGED <<network_events, incidents_history, active_threats,
                       hash_seed, aux_vars, returned, calls, probe, out, cb_vars>>

\* get_threat_summary(): the counts the claims read
get_threat_summary ==
    [active_incidents |-> Cardinality(DOMAIN active_threats),
     total_incidents_24h |->
        Cardinality({i \in DOMAIN incidents_history :
                        incidents_history[i].created_at > now - 24 * 3600})]

Next == AnalyzeNetworkTraffic \/ Cleanup \/ Tick

Spec == Init /\ [][Next]_vars

-----------------------------------------------------------------------------
(* Callback dispatch and concurrent calls.  analyze_network_traffic is a     *)
(* coroutine: it runs without interruption up to an await that suspends it,  *)
(* and the only such awaits are the calls of alert_callback and of           *)
(* voice_callback in _process_security_incident and _voice_alert.  A task    *)
(* whose pc is "process" holds the event loop; one whose pc is "alert" or    *)
(* "voice" is suspended in that callback, and other coroutines and cleanup   *)
(* may run meanwhile.                                                        *)

\* the batches submitted: the injection request of the listed source (a
\* critical and a low incident), a request of the unlisted source (one low
\* incident) and the pair whose second timestamp is no datetime
CallbackShapes ==
    {Shape(1, SourceIPs[1], 1, 0, 1, 1048576, Injection, "sqlmap/1.0", 0, "naive"),
     Shape(1, SourceIPs[2], 1, 0, 2, 51200, "/index.html", "Mozilla/5.0", 0, "naive"),
     Shape(2, SourceIPs[1], 1, 0, 2, 51200, None, None, 2, "invalid"),
     Shape(20, SourceIPs[2], 1, 120, 2, 51200, None, None, 0, "naive")}

running == \E task \in Tasks : tasks[task].pc = "process"

\* set_alert_callback(callback)
SetAlertCallback(callback) ==
    /\ ~running
    /\ registrations < MaxRegistrations
    /\ alert_callback' = callback
    /\ registrations' = registrations + 1
    /\ UNCHANGED <<network_events, incidents_history, active_threats, now,
                   hash_seed, aux_vars, returned, calls, probe, out, voice_callback,
                   tasks, dispatched>>

\* set_voice_callback(callback)
SetVoiceCallback(callback) ==
    /\ ~running
    /\ registrations < MaxRegistrations
    /\ voice_callback' = callback
    /\ registrations' = registrations + 1
    /\ UNCHANGED <<network_events, incidents_history, active_threats, now,
                   hash_seed, aux_vars, returned, calls, probe, out, alert_callback,
                   tasks, dispatched>>

\* analyze_network_traffic(events) from its call to the loop over the
\* incidents detected; the except clause ends the call with []
Call(task) ==
    \E shape \in CallbackShapes :
        /\ ~running
        /\ tasks[task].pc = "idle"
        /\ \A earlier \in 1..(task - 1) : tasks[earlier].pc # "idle"
        /\ LET events == MkBatch(shape, now)
               evs == network_events \o events
               det == detected_incidents(events, evs, now, hash_seed)
           IN  /\ network_events' = evs
               /\ tasks' = [tasks EXCEPT ![task] =
                      IF det.raised
                      THEN [IdleTask EXCEPT !.pc = "done", !.events = events,
                                            !.failed = TRUE]
                      ELSE [IdleTask EXCEPT !.pc = "process", !.events = events,
                                            !.incidents = det.incidents,
                                            !.k = 1]]
        /\ UNCHANGED <<incidents_history, active_threats, now, hash_seed, aux_vars,
                       returned, calls, probe, out, alert_callback,
                       voice_callback, dispatched, registrations>>

\* what the call returns
task_result(task) ==
    IF tasks[task].failed THEN <<>> ELSE tasks[task].incidents

\* `incident.threat_level in [CRITICAL, CATASTROPHIC]` and, in _voice_alert,
\* a voice callback is set
wants_voice(incident) ==
    /\ incident.threat_level \in {"critical", "catastrophic"}
    /\ voice_callback # None

\* the task goes on to the next incident of its list
next_incident(task) ==
    [tasks EXCEPT ![task].pc = "process", ![task].k = @ + 1,
                  ![task].awaiting = None]

\* _process_security_incident(incident) for the next incident of the task,
\* up to the first callback awaited; `return incidents` after the last one
Process(task) ==
    /\ tasks[task].pc = "process"
    /\ IF tasks[task].k > Len(tasks[task].incidents)
       THEN /\ tasks' = [tasks EXCEPT ![task].pc = "done"]
            /\ UNCHANGED <<incidents_history, active_threats, dispatched>>
       ELSE LET incident == tasks[task].incidents[tasks[task].k]
                entry == [task |-> task, k |-> tasks[task].k,
                          incident |-> incident,
                          at |-> Len(incidents_history) + 1,
                          registered |-> [alert |-> alert_callback,
                                          voice |-> voice_callback],
                          invoked |-> {}, raised |-> {}]
            IN  /\ incidents_history' = Append(incidents_history, incident)
                /\ active_threats' = active_put(active_threats, incident)
                /\ IF alert_callback # None
                   THEN /\ tasks' = [tasks EXCEPT
                               ![task].pc = "alert",
                               ![task].awaiting = alert_callback,
                               ![task].d = Len(dispatched) + 1]
                        /\ dispatched' = Append(dispatched,
                               [entry EXCEPT !.invoked = {"alert"}])
                   ELSE IF wants_voice(incident)
                   THEN /\ tasks' = [tasks EXCEPT
                               ![task].pc = "voice",
                               ![task].awaiting = voice_callback,
                               ![task].d = Len(dispatched) + 1]
                        /\ dispatched' = Append(dispatched,
                               [entry EXCEPT !.invoked = {"voice"}])
                   ELSE /\ tasks' = [next_incident(task) EXCEPT
                               ![task].d = Len(dispatched) + 1]
                        /\ dispatched' = Append(dispatched, entry)
    /\ UNCHANGED <<network_events, now, hash_seed, aux_vars, returned, calls, probe, out,
                   alert_callback, voice_callback, registrations>>

\* the except clause of _process_security_incident with a rollback of the
\* incident it was processing
on_callback_error_rollback(history, active, incident) ==
    [history |-> SelectSeq(history, LAMBDA i : i # incident),
     active |-> [id \in DOMAIN active \ {incident.incident_id} |-> active[id]]]

\* the except clauses of _process_security_incident and _voice_alert: the
\* error is logged
on_callback_error(history, active, incident) ==
    [history |-> history, active |-> active]

\* `await self.alert_callback(incident)` completes: the callback returned,
\* and the voice alert follows for a critical incident, or it raised, and the
\* except clause of _process_security_incident ends the incident's processing
AlertDone(task) ==
    /\ ~running
    /\ tasks[task].pc = "alert"
    /\ callback_outcome(tasks[task].awaiting) # "never"
    /\ LET incident == tasks[task].incidents[tasks[task].k]
           d == tasks[task].d
       IN  IF callback_outcome(tasks[task].awaiting) = "raises"
           THEN LET after == on_callback_error(incidents_history,
                                               active_threats, incident)
                IN  /\ incidents_history' = after.history
                    /\ active_threats' = after.active
                    /\ tasks' = next_incident(task)
                    /\ dispatched' = [dispatched EXCEPT
                                         ![d].raised = @ \cup {"alert"}]
           ELSE /\ UNCHANGED <<incidents_history, active_threats>>
                /\ IF wants_voice(incident)
                   THEN /\ tasks' = [tasks EXCEPT
                               ![task].pc = "voice",
                               ![task].awaiting = voice_callback]
                        /\ dispatched' = [dispatched EXCEPT
                               ![d].invoked = @ \cup {"voice"}]
                   ELSE /\ tasks' = next_incident(task)
                        /\ UNCHANGED dispatched
    /\ UNCHANGED <<network_events, now, hash_seed, aux_vars, returned, calls, probe, out,
                   alert_callback, voice_callback, registrations>>

\* `await self.voice_callback(message, tone, incident)` completes: it
\* returned, or it raised and the except clause of _voice_alert logged it
VoiceDone(task) ==
    /\ ~running
    /\ tasks[task].pc = "voice"
    /\ callback_outcome(tasks[task].awaiting) # "never"
    /\ LET incident == tasks[task].incidents[tasks[task].k]
           d == tasks[task].d
       IN  IF callback_outcome(tasks[task].awaiting) = "raises"
           THEN LET after == on_callback_error(incidents_history,
                                               active_threats, incident)
                IN  /\ incidents_history' = after.history
                    /\ active_threats' = after.active
                    /\ dispatched' = [dispatched EXCEPT
                                         ![d].raised = @ \cup {"voice"}]
           ELSE UNCHANGED <<incidents_history, active_threats, dispatched>>
    /\ tasks' = next_incident(task)
    /\ UNCHANGED <<network_events, now, hash_seed, aux_vars, returned, calls, probe, out,
                   alert_callback, voice_callback, registrations>>

\* cleanup() called while no coroutine holds the event loop
CleanupBetween == ~running /\ cleanup

\* a day passes while a coroutine is suspended in a callback
Wait ==
    /\ \E task \in Tasks : tasks[task].pc \in {"alert", "voice"}
    /\ ticks_taken < MaxTicks
    /\ now' = now + 86400
    /\ UNCHANGED <<network_events, incidents_history, active_threats,
                   hash_seed, aux_vars, returned, calls, probe, out, cb_vars>>

NextCb ==
    \/ \E callback \in Callbacks : SetAlertCallback(callback)
    \/ \E callback \in Callbacks : SetVoiceCallback(callback)
    \/ \E task \in Tasks : Call(task)
    \/ \E task \in Tasks : Process(task)
    \/ \E task \in Tasks : AlertDone(task)
    \/ \E task \in Tasks : VoiceDone(task)
    \/ CleanupBetween
    \/ Wait

SpecCb == Init /\ [][NextCb]_vars

\* the event loop runs every coroutine that can run
SpecCbFair ==
    SpecCb /\ \A task \in Tasks :
                 /\ WF_vars(Process(task))
                 /\ WF_vars(AlertDone(task))
                 /\ WF_vars(VoiceDone(task))

-----------------------------------------------------------------------------
(* The entry point of communication/interface.py: simulate_network_traffic   *)
(* builds a NetworkEvent from each dictionary of events_data and passes the  *)
(* list to analyze_network_traffic.  The "timestamp" of a dictionary is an   *)
(* ISO string (of a naive or of an aware datetime), a string that is no ISO  *)
(* date, or absent.                                                          *)

EventData(iso, src, dst, bytes, uri, ua) ==
    [timestamp |-> iso, source_ip |-> src, destination_ip |-> dst,
     bytes_transferred |-> bytes, uri |-> uri, user_agent |-> ua]

\* datetime.fromisoformat raises ValueError
fromisoformat_raises(iso) == iso = "unparseable"

\* NetworkEvent(timestamp=datetime.fromisoformat(event_data.get("timestamp",
\* datetime.now().isoformat())), ...): the sizes are taken as they are
to_network_event(event_data, t) ==
    NetworkEvent(t,
                 IF event_data.timestamp = "absent" THEN "naive"
                 ELSE event_data.timestamp,
                 event_data.source_ip, event_data.destination_ip,
                 event_data.bytes_transferred, event_data.uri,
                 event_data.user_agent)

\* the dictionaries submitted: well-formed events of the listed and of the
\* unlisted source, one without timestamp, one with a negative size and one
\* whose timestamp cannot be parsed
DataEntries ==
    {EventData("naive", SourceIPs[1], DestinationIPs[2], 51200, None, None),
     EventData("naive", SourceIPs[2], DestinationIPs[2], 51200, "/index.html",
               "Mozilla/5.0"),
     EventData("absent", SourceIPs[2], DestinationIPs[2], 51200, None, None),
     EventData("naive", SourceIPs[1], DestinationIPs[2], -5, None, None),
     EventData("unparseable", SourceIPs[1], DestinationIPs[2], 51200, None, None)}

\* events_data: one or two dictionaries
DataLists ==
    {<<e>> : e \in DataEntries} \cup {<<e1, e2>> : e1, e2 \in DataEntries}

\* simulate_network_traffic(events_data)
SimulateNetworkTraffic ==
    \E events_data \in DataLists :
        /\ calls < MaxCalls
        /\ probe' = [fn |-> "simulate", events_data |-> events_data]
        /\ IF \E i \in DOMAIN events_data :
                 fromisoformat_raises(events_data[i].timestamp)
           THEN /\ returned' = <<>>
                /\ UNCHANGED <<network_events, incidents_history,
                               active_threats, calls>>
           ELSE LET events == [i \in DOMAIN events_data |->
                                  to_network_event(events_data[i], now)]
                    evs == network_events \o events
                    d == detected_incidents(events, evs, now, hash_seed)
                    p == process_all(d.incidents, incidents_history,
                                     active_threats)
                IN  /\ network_events' = evs
                    /\ incidents_history' = p.history
                    /\ active_threats' = p.active
                    /\ returned' = d.incidents
                    /\ calls' = calls + 1
        /\ UNCHANGED <<now, hash_seed, aux_vars, out, cb_vars>>

NextIf == SimulateNetworkTraffic

SpecIf == Init /\ [][NextIf]_vars

-----------------------------------------------------------------------------
(* The functions of the engine on their own: one argument, drawn from the    *)
(* probes below, is evaluated by the function it is meant for.               *)

\* confidence values, in thousandths, on which the threat level is evaluated
Confidences == 0..1000

\* the batches given to _correlate_events: ten to twelve events of a source,
\* to one, five or six destinations, spanning up to and beyond five minutes,
\* totalling less than, exactly and more than 100 MB, with or without an
\* older event of the same source, a second source's events and timestamps
\* that are not naive datetimes
CorrelateShapes ==
    {[Shape(n, src, nd, span, 2,
            IF b = 0 THEN 51200
            ELSE 100 * 1024 * 1024 - 51200 * (n - 1 + stale) + (b - 1),
            None, None, bad, "aware")
        EXCEPT !.stale = stale, !.other = oth[1], !.okind = oth[2]] :
        n \in {10, 11, 12}, src \in Sources, nd \in {1, 5, 6},
        span \in {0, 299, 300, 301}, b \in {0, 1, 2}, stale \in {0, 1},
        oth \in {<<0, "naive">>, <<11, "naive">>, <<11, "aware">>},
        bad \in {0, 1}}

\* the events analyze_event is evaluated on: counts of threat indicators
\* around its limits 0, 2 and 5, and the profile of the source: none yet, or
\* one of 1 to 1000 entries with the averages of its features
FeatureInputs ==
    {[threat_indicators |-> ti, content_length |-> cl] :
        ti \in {0, 1, 3, 6, 40}, cl \in {2, 50, 500}}

BaselineInputs ==
    {NoBaseline}
    \cup {[history |-> h, avg_features |-> [threat_indicators |-> ti * 1000,
                                            content_length |-> cl * 1000]] :
            h \in {1, 50, 100, 1000}, ti \in {0, 1, 3}, cl \in {2, 50, 500}}

\* the lists given to analyze_indicators, of up to two indicators, and the
\* indicators the feeds have loaded
IndicatorLists ==
    {<<>>} \cup {<<Indicators[i]>> : i \in DOMAIN Indicators}
    \cup {<<Indicators[i], Indicators[j]>> :
            i \in DOMAIN Indicators, j \in DOMAIN Indicators}

IndicatorDbs == {{}, {"1.2.3.4", "example.com"}}

Probes ==
    {[fn |-> "level", confidence |-> c] : c \in Confidences}
    \cup {[fn |-> "match", text |-> t] : t \in Texts}
    \cup {[fn |-> "correlate", shape |-> sh] : sh \in CorrelateShapes}
    \cup {[fn |-> "analyze", shape |-> sh] : sh \in EngineShapes}
    \cup {[fn |-> "scenario", shape |-> sh, earlier |-> n] :
            sh \in ScenarioShapes, n \in EarlierCounts}
    \cup {[fn |-> "text", text |-> t] : t \in Texts}
    \cup {[fn |-> "event", features |-> f, baseline |-> b] :
            f \in FeatureInputs, b \in BaselineInputs}
    \cup {[fn |-> "indicators", indicators |-> l, indicators_db |-> db] :
            l \in IndicatorLists, db \in IndicatorDbs}
    \cup {[fn |-> "actions", threat_level |-> ThreatLevel[l],
           attack_vector |-> AttackVector[v]] :
            l \in DOMAIN ThreatLevel, v \in DOMAIN AttackVector}

InitFn ==
    /\ network_events = <<>>
    /\ incidents_history = <<>>
    /\ active_threats = <<>>
    /\ now = StartOfRun
    /\ hash_seed \in {0, 1}
    /\ returned = <<>>
    /\ calls = 0
    /\ probe \in Probes
    /\ out = NoResult
    /\ InitCallbacks
    /\ InitStores

Result(v) == [done |-> TRUE, value |-> v]

EvalThreatLevel ==
    /\ probe.fn = "level" /\ ~out.done
    /\ out' = Result(calculate_threat_level(probe.confidence))
    /\ UNCHANGED <<network_events, incidents_history, active_threats, now,
                   hash_seed, aux_vars, returned, calls, probe, cb_vars>>

EvalPatterns ==
    /\ probe.fn = "match" /\ ~out.done
    /\ out' = Result(check_malicious_patterns(probe.text))
    /\ UNCHANGED <<network_events, incidents_history, active_threats, now,
                   hash_seed, aux_vars, returned, calls, probe, cb_vars>>

EvalCorrelate ==
    /\ probe.fn = "correlate" /\ ~out.done
    /\ out' = Result(correlate_events(MkBatch(probe.shape, now), now, hash_seed))
    /\ UNCHANGED <<network_events, incidents_history, active_threats, now,
                   hash_seed, aux_vars, returned, calls, probe, cb_vars>>

\* the incidents analyze_network_traffic detects in a batch
EvalAnalyze ==
    /\ probe.fn = "analyze" /\ ~out.done
    /\ out' = Result(detected_incidents(MkBatch(probe.shape, now),
                                        MkBatch(probe.shape, now),
                                        now, hash_seed).incidents)
    /\ UNCHANGED <<network_events, incidents_history, active_threats, now,
                   hash_seed, aux_vars, returned, calls, probe, cb_vars>>

\* the incidents analyze_network_traffic detects in the batch of the scenario
\* on an engine that recorded events of the source shortly before
EvalScenario ==
    /\ probe.fn = "scenario" /\ ~out.done
    /\ LET events == MkBatch(probe.shape, now)
           evs == earlier_events(probe.shape, probe.earlier, now) \o events
       IN  out' = Result(detected_incidents(events, evs, now, hash_seed).incidents)
    /\ UNCHANGED <<network_events, incidents_history, active_threats, now,
                   hash_seed, aux_vars, returned, calls, probe, cb_vars>>

EvalTextInput ==
    /\ probe.fn = "text" /\ ~out.done
    /\ out' = Result(analyze_text_input(probe.text))
    /\ UNCHANGED <<network_events, incidents_history, active_threats, now,
                   hash_seed, aux_vars, returned, calls, probe, cb_vars>>

EvalEvent ==
    /\ probe.fn = "event" /\ ~out.done
    /\ out' = Result(analyze_event(probe.features, probe.baseline))
    /\ UNCHANGED <<network_events, incidents_history, active_threats, now,
                   hash_seed, aux_vars, returned, calls, probe, cb_vars>>

EvalIndicators ==
    /\ probe.fn = "indicators" /\ ~out.done
    /\ out' = Result(analyze_indicators(probe.indicators, probe.indicators_db))
    /\ UNCHANGED <<network_events, incidents_history, active_threats, now,
                   hash_seed, aux_vars, returned, calls, probe, cb_vars>>

EvalActions ==
    /\ probe.fn = "actions" /\ ~out.done
    /\ out' = Result(generate_recommended_actions(probe.threat_level,
                                                  probe.attack_vector, hash_seed))
    /\ UNCHANGED <<network_events, incidents_history, active_threats, now,
                   hash_seed, aux_vars, returned, calls, probe, cb_vars>>

NextFn ==
    \/ EvalThreatLevel \/ EvalPatterns \/ EvalCorrelate
    \/ EvalAnalyze \/ EvalTextInput \/ EvalEvent \/ EvalIndicators
    \/ EvalActions \/ EvalScenario

SpecFn == InitFn /\ [][NextFn]_vars

-----------------------------------------------------------------------------
(* Properties *)

\* the events a step appended to self.network_events, the incidents it
\* appended to self.incidents_history
new_events == SubSeq(network_events', Len(network_events) + 1, Len(network_events'))

new_incidents ==
    SubSeq(incidents_history', Len(incidents_history) + 1, Len(incidents_history'))

\* a step of analyze_network_traffic
AnalysisStep == calls' = calls + 1

incident_source(incident) == incident.title[2]

\* same source entity, destination(s) and attack vector
same_detection(a, b) ==
    /\ incident_source(a) = incident_source(b)
    /\ a.affected_assets = b.affected_assets
    /\ a.attack_vector = b.attack_vector

is_open(incident) == incident.status \in {"new", "investigating"}

\* C1: a detection for the same source, destination and attack vector as an
\* active incident (status new or investigating) merges into it: the number
\* of incidents in the history and in the active set is unchanged, the
\* existing incident's timeline is strictly longer, its confidence is the
\* maximum of the old and the new one and its updated_at has advanced.
C1_MergeIntoActive ==
    [][(AnalysisStep /\ returned' # <<>>
        /\ \A k \in DOMAIN returned' :
              \E id \in DOMAIN active_threats :
                 is_open(active_threats[id])
                 /\ same_detection(active_threats[id], returned'[k]))
       => /\ Len(incidents_history') = Len(incidents_history)
          /\ DOMAIN active_threats' = DOMAIN active_threats
          /\ \A k \in DOMAIN returned' :
                \E id \in DOMAIN active_threats :
                   /\ is_open(active_threats[id])
                   /\ same_detection(active_threats[id], returned'[k])
                   /\ Len(active_threats'[id].attack_timeline)
                         > Len(active_threats[id].attack_timeline)
                   /\ active_threats'[id].confidence_score
                         >= Max(active_threats[id].confidence_score,
                                returned'[k].confidence_score)
                   /\ active_threats'[id].updated_at
                         >= active_threats[id].updated_at
      ]_vars

RECURSIVE timeline_entries(_, _)
timeline_entries(history, label) ==
    IF history = <<>> THEN 0
    ELSE Cardinality({i \in DOMAIN Head(history).attack_timeline :
                         Head(history).attack_timeline[i].event = label})
         + timeline_entries(Tail(history), label)

\* the anomalies an event shows by itself: hour, volume, origin, user agent
shows_anomaly(event) ==
    \/ event.ts_kind # "invalid"
       /\ (hour_of(event.timestamp) < 8 \/ hour_of(event.timestamp) > 18)
    \/ event.bytes_transferred > 100 * 1024 * 1024
    \/ get_ip_geolocation(event.source_ip) \notin {"FR", "EU"}
    \/ event.user_agent = "sqlmap/1.0"

count_where(s, Test(_)) == Cardinality({i \in DOMAIN s : Test(s[i])})

\* C2: no detection is dropped: each event of a batch with an indicator hit,
\* and each event showing a behavioural anomaly, is recorded in the timeline
\* of a new or merged incident of the history, and each campaign of the
\* batch yields a campaign incident, also when the analysis of another event
\* of the batch fails.
C2_NoDetectionDropped ==
    [][AnalysisStep
       => /\ timeline_entries(incidents_history', "Network event detected")
               - timeline_entries(incidents_history, "Network event detected")
             = count_where(new_events,
                           LAMBDA e : check_threat_indicators(e) # <<>>)
          /\ timeline_entries(incidents_history', "Behavioral anomalies detected")
               - timeline_entries(incidents_history, "Behavioral anomalies detected")
             = count_where(new_events, shows_anomaly)
          /\ \A src \in Sources :
                LET grp == ip_group(new_events, src)
                IN  (Len(grp) > 10
                     /\ (\A i \in DOMAIN grp : grp[i].ts_kind = "naive")
                     /\ time_span(grp) < 300)
                    => \E k \in DOMAIN new_incidents :
                          new_incidents[k].title = <<"campaign", src>>
      ]_vars

allowed_transition(from, to) ==
    \/ from = "new" /\ to = "investigating"
    \/ from = "investigating" /\ to = "contained"
    \/ from = "contained" /\ to = "resolved"
    \/ from = "resolved" /\ to = "new"

age(incident) == now - incident.updated_at

probe_batch == MkBatch(probe.shape, now)

campaigns_of(incidents, src) ==
    SelectSeq(incidents, LAMBDA inc : inc.title = <<"campaign", src>>)

all_naive(ip_events) == \A i \in DOMAIN ip_events : ip_events[i].ts_kind = "naive"

destinations_of(ip_events) == {ip_events[i].destination_ip : i \in DOMAIN ip_events}

bytes_of(ip_events) ==
    SeqSum([i \in DOMAIN ip_events |-> ip_events[i].bytes_transferred])

\* C5: for every batch in which one source emits more than 10 events to more
\* than 5 distinct destinations within 5 minutes, _correlate_events emits
\* exactly one incident for that source, with attack vector DDOS.  ("Within
\* 5 minutes" is read as the code reads it, a span below 300 seconds.)
C5_OneDdosIncident ==
    (probe.fn = "correlate" /\ out.done)
    => \A src \in Sources :
          LET grp == ip_group(probe_batch, src)
          IN  (Len(grp) > 10 /\ all_naive(grp)
               /\ Cardinality(destinations_of(grp)) > 5
               /\ time_span(grp) < 300)
              => /\ Len(campaigns_of(out.value, src)) = 1
                 /\ campaigns_of(out.value, src)[1].attack_vector = "ddos"

\* C6: _correlate_events emits a campaign incident for a source group
\* exactly when the group has more than 10 events within a 5-minute span,
\* and classifies it DDOS for more than 5 distinct destinations, otherwise
\* DATA_EXFILTRATION for more than 100 MB in total, otherwise APT.  (The
\* span is again read as below 300 seconds.)
C6_CampaignExactlyWhen ==
    (probe.fn = "correlate" /\ out.done)
    => \A src \in Sources :
          LET grp == ip_group(probe_batch, src)
              found == campaigns_of(out.value, src)
          IN  (grp # <<>> /\ all_naive(grp))
              => /\ found # <<>> <=> (Len(grp) > 10 /\ time_span(grp) < 300)
                 /\ \A k \in DOMAIN found :
                       found[k].attack_vector =
                          IF Cardinality(destinations_of(grp)) > 5 THEN "ddos"
                          ELSE IF bytes_of(grp) > 100 * 1024 * 1024
                          THEN "data_exfiltration"
                          ELSE "apt"

\* the well-formed events of a source recorded within a span of less than
\* five minutes ending at time t
in_window(src, t) ==
    {i \in DOMAIN network_events :
        /\ network_events[i].source_ip = src
        /\ network_events[i].ts_kind = "naive"
        /\ network_events[i].timestamp <= t
        /\ network_events[i].timestamp > t - 300}

\* C7: campaign detection works over a per-source sliding window: once a
\* source has emitted more than 10 events within 5 minutes, whether in one
\* call or in several, or next to older events of the same source, a
\* campaign incident for it is in the history.
C7_SlidingWindow ==
    \A src \in Sources :
       (\E i \in DOMAIN network_events :
           Cardinality(in_window(src, network_events[i].timestamp)) > 10)
       => \E k \in DOMAIN incidents_history :
             incidents_history[k].title = <<"campaign", src>>

\* the patterns of a category that match a text (one that does not compile
\* matches nothing)
matching_patterns(pattern_type, text) ==
    {i \in 1..PatternCount(pattern_type) : match_count(pattern_type, i, text) >= 1}

\* C8: _check_malicious_patterns returns a pair for a category if and only
\* if one of the category's patterns matches the text; the pair's confidence
\* is min(0.9, 0.3 + 0.2 * matchCount) with matchCount >= 1; no category
\* appears twice.
C8_PairIffMatch ==
    (probe.fn = "match" /\ out.done)
    => /\ \A k \in DOMAIN PatternTypes :
             LET pairs == SelectSeq(out.value,
                                    LAMBDA pr : pr[1] = PatternTypes[k])
                 hits == matching_patterns(PatternTypes[k], probe.text)
             IN  /\ pairs # <<>> <=> hits # {}
                 /\ Len(pairs) <= 1
                 /\ \A j \in DOMAIN pairs :
                       \E i \in hits :
                          pairs[j][2] = Min(900, 300 + 200 *
                             match_count(PatternTypes[k], i, probe.text))

\* C9: analysing the event with uri "/admin/login?id=1' OR '1'='1", user
\* agent "sqlmap/1.0" and source 185.220.100.240 yields a sql_injection
\* pattern hit of confidence >= 0.3, and the incident created from the
\* event's indicators has attack vector SQL_INJECTION and a threat level of
\* at least medium.
C9_InjectionScenario ==
    \A k \in DOMAIN incidents_history :
       LET inc == incidents_history[k]
       IN  (inc.title = <<"suspicious_activity", "185.220.100.240">>
            /\ \E i \in DOMAIN inc.indicators :
                  inc.indicators[i].indicator_type = "url_pattern"
                  /\ inc.indicators[i].value = Injection)
           => /\ \E i \in DOMAIN inc.indicators :
                    /\ inc.indicators[i].threat_types = <<"sql_injection">>
                    /\ inc.indicators[i].confidence >= 300
              /\ inc.attack_vector = "sql_injection"
              /\ LevelRank(inc.threat_level) >= LevelRank("medium")

\* the six-level table of the specification
level_table(r) ==
    IF r >= 950 THEN "catastrophic"
    ELSE IF r >= 850 THEN "critical"
    ELSE IF r >= 700 THEN "high"
    ELSE IF r >= 500 THEN "medium"
    ELSE IF r >= 300 THEN "low"
    ELSE "minimal"

\* C10: the threat level computed from a value r in [0,1] follows the table
\* r >= 0.95 catastrophic, >= 0.85 critical, >= 0.70 high, >= 0.50 medium,
\* >= 0.30 low, below 0.30 minimal.
C10_SixLevelTable ==
    (probe.fn = "level" /\ out.done)
    => out.value = level_table(probe.confidence)


-----------------------------------------------------------------------------
\* C11: the threat level is monotone in the value it is computed from: the
\* level of a value is at least the level of every smaller value, in the
\* order minimal < low < medium < high < critical < catastrophic.
C11_LevelMonotone ==
    (probe.fn = "level" /\ out.done)
    => \A r2 \in Confidences :
          r2 < probe.confidence
          => LevelRank(calculate_threat_level(r2)) <= LevelRank(out.value)

\* the level of 0.7, the first value of level high, has been computed
C11_Witness ==
    /\ probe.fn = "level" /\ out.done
    /\ probe.confidence = detection_thresholds.high
    /\ out.value = "high"
    /\ calculate_threat_level(probe.confidence - 1) = "medium"


-----------------------------------------------------------------------------
\* the confidences of a list of incidents and of their indicators
incident_scores(incidents) ==
    {incidents[i].confidence_score : i \in DOMAIN incidents}
    \cup UNION {{incidents[i].indicators[j].confidence :
                    j \in DOMAIN incidents[i].indicators} :
                i \in DOMAIN incidents}

\* the confidences and risk scores of the engine and of the behavioural
\* detector in the result of the evaluation made
unit_scores ==
    CASE probe.fn = "match" -> {out.value[i][2] : i \in DOMAIN out.value}
      [] probe.fn \in {"correlate", "analyze"} -> incident_scores(out.value)
      [] probe.fn = "text" ->
           {out.value.risk_score}
           \cup {out.value.malicious_patterns[i][2] :
                    i \in DOMAIN out.value.malicious_patterns}
      [] probe.fn = "event" ->
           {out.value.behavior.anomaly_score, out.value.behavior.confidence,
            out.value.prediction.confidence, out.value.prediction.risk_score}
      [] OTHER -> {}

\* C12 as claimed: every confidence and risk score computed lies in [0,1],
\* the risk_score of analyze_indicators included.
C12_AllScoresInUnitInterval ==
    out.done =>
       /\ \A s \in unit_scores : 0 <= s /\ s <= 1000
       /\ probe.fn = "indicators"
          => 0 <= out.value.risk_score /\ out.value.risk_score <= 1000

\* C12 as amended: the pattern-hit, anomaly-incident, campaign and incident
\* confidences, the text risk score, the behavioural anomaly score and the
\* prediction's confidence and risk score lie in [0,1]; the risk_score of
\* analyze_indicators lies in [0,100].
C12_ScoresInRange ==
    out.done =>
       /\ \A s \in unit_scores : 0 <= s /\ s <= 1000
       /\ probe.fn = "indicators"
          => 0 <= out.value.risk_score /\ out.value.risk_score <= 100 * 1000

\* a text whose pattern, intent and term risks add up to more than 1 has
\* been scored
C12_Witness ==
    /\ probe.fn = "text" /\ out.done
    /\ out.value.risk_score = 1000
    /\ calculate_text_risk_score_unclamped(
           probe.text, out.value.malicious_patterns, out.value.intent) > 1000


-----------------------------------------------------------------------------
(* Callback dispatch *)

\* the processing of the incident of a dispatch record is over
completed(d) == tasks[d.task].pc = "done" \/ tasks[d.task].k > d.k

\* C13: when a callback raises while an incident is processed, the other
\* registered callback due for that incident (the voice callback, for a
\* critical or catastrophic incident) is still invoked for it, and every
\* incident of the batch is processed.
C13_CallbackFailureIsolated ==
    /\ \A i \in DOMAIN dispatched :
          LET d == dispatched[i]
          IN  (/\ completed(d)
               /\ "alert" \in d.raised
               /\ d.incident.threat_level \in {"critical", "catastrophic"}
               /\ d.registered.voice # None)
              => "voice" \in d.invoked
    /\ \A task \in Tasks :
          (tasks[task].pc = "done" /\ ~tasks[task].failed)
          => \A k \in DOMAIN tasks[task].incidents :
                \E i \in DOMAIN dispatched :
                   dispatched[i].task = task /\ dispatched[i].k = k

registered_callbacks == {alert_callback, voice_callback} \ {None}

\* every callback registered when an incident was processed was invoked
\* with it
every_callback_invoked ==
    \A i \in DOMAIN dispatched :
       completed(dispatched[i])
       => \A slot \in {"alert", "voice"} :
             dispatched[i].registered[slot] # None
             => slot \in dispatched[i].invoked

\* C14: registering a callback never unregisters one registered before, and
\* each registered callback is invoked with every processed incident,
\* whatever the incident's threat level.
C14_AllCallbacksInvoked ==
    [][/\ registered_callbacks \subseteq registered_callbacks'
       /\ every_callback_invoked']_vars

\* the task whose callback has just raised
callback_raised(task) ==
    /\ tasks[task].pc \in {"alert", "voice"}
    /\ tasks'[task].pc = "process"
    /\ dispatched'[tasks[task].d].raised # dispatched[tasks[task].d].raised

C16_CallsReturn ==
    \A task \in Tasks :
       (tasks[task].pc # "idle") ~> (tasks[task].pc = "done")

-----------------------------------------------------------------------------
(* Concurrent calls *)

occurrences(s, x) == Cardinality({i \in DOMAIN s : s[i] = x})

\* the two sequences hold the same elements the same number of times
same_elements(s1, s2) ==
    /\ Len(s1) = Len(s2)
    /\ \A i \in DOMAIN s1 : occurrences(s1, s1[i]) = occurrences(s2, s1[i])

RECURSIVE all_submitted(_)
all_submitted(task) ==
    IF task > MaxTasks THEN <<>>
    ELSE tasks[task].events \o all_submitted(task + 1)

RECURSIVE all_results(_)
all_results(task) ==
    IF task > MaxTasks THEN <<>>
    ELSE (IF tasks[task].pc = "done" THEN task_result(task) ELSE <<>>)
         \o all_results(task + 1)

all_returned == \A task \in Tasks : tasks[task].pc \in {"idle", "done"}

-----------------------------------------------------------------------------
(* Malformed events *)

\* a dictionary with a negative size or a timestamp that cannot be parsed
malformed(event_data) ==
    \/ event_data.bytes_transferred < 0
    \/ fromisoformat_raises(event_data.timestamp)

SimulateStep == probe' # probe \/ calls' = calls + 1

\* C17: a malformed event is rejected: it is never appended to the recorded
\* network events, and a batch of malformed events creates and changes no
\* incident.
C17_MalformedRejected ==
    [][(SimulateStep /\ probe'.fn = "simulate")
       => /\ \A i \in DOMAIN new_events : new_events[i].bytes_transferred >= 0
          /\ (\A i \in DOMAIN probe'.events_data :
                 malformed(probe'.events_data[i]))
             => /\ incidents_history' = incidents_history
                /\ active_threats' = active_threats
      ]_vars

\* the batch without its malformed dictionaries
well_formed_only(events_data) ==
    SelectSeq(events_data, LAMBDA e : ~malformed(e))

\* C18: a batch with one malformed event and well-formed ones yields exactly
\* the incidents the well-formed events yield without the malformed one.
C18_MalformedIsolated ==
    [][(/\ SimulateStep /\ probe'.fn = "simulate"
        /\ Len(probe'.events_data) > 1
        /\ Len(well_formed_only(probe'.events_data))
              = Len(probe'.events_data) - 1)
       => LET events == [i \in DOMAIN well_formed_only(probe'.events_data) |->
                            to_network_event(
                                well_formed_only(probe'.events_data)[i], now)]
          IN  returned' = detected_incidents(events, network_events \o events,
                                             now, hash_seed).incidents
      ]_vars

\* C19: ingestion is all or nothing: whenever a call has recorded an event
\* for which an indicator was found, the incident made for that event is in
\* the history.
C19_AllOrNothing ==
    [][AnalysisStep
       => \A i \in DOMAIN new_events :
             check_threat_indicators(new_events[i]) # <<>>
             => \E k \in DOMAIN new_incidents :
                   /\ new_incidents[k].title
                         = <<"suspicious_activity", new_events[i].source_ip>>
                   /\ new_incidents[k].attack_timeline[1].timestamp
                         = new_events[i].timestamp
      ]_vars

-----------------------------------------------------------------------------
(* The behavioural detector with its profiles: analyze_event and             *)
(* _update_baseline_profiles of AdvancedThreatDetector                       *)

\* dict[key] = value
dict_put(dict, key, value) ==
    [k \in DOMAIN dict \cup {key} |-> IF k = key THEN value ELSE dict[k]]

Entities == <<"10.0.0.5", "10.0.0.6">>

\* a SecurityEvent: its source, its timestamp and the features
\* _extract_features reads from it
SecurityEvent(source_ip, timestamp, features) ==
    [source_ip |-> source_ip, timestamp |-> timestamp, features |-> features]

\* self.baseline_profiles.get(entity_id, {}) as _analyze_behavior reads it
baseline_of(profiles, entity_id) ==
    IF entity_id \in DOMAIN profiles
    THEN [history |-> Len(profiles[entity_id].history),
          avg_features |-> profiles[entity_id].avg_features]
    ELSE NoBaseline

history_limit == 1000

event_history_limit == 10000

\* a list cut to its first 1000 entries
keep_oldest(history) ==
    IF Len(history) > history_limit THEN SubSeq(history, 1, history_limit)
    ELSE history

\* profile['history'][-1000:] when the history has more than 1000 entries
keep_recent(history) ==
    IF Len(history) > history_limit THEN LastN(history, history_limit)
    ELSE history

\* averages smoothed from zero
first_averages_smoothed(features) ==
    [key \in DOMAIN features |-> (features[key] * 1000) \div 10]

\* profile['avg_features'] = features.copy()
first_averages(features) ==
    [key \in DOMAIN features |-> features[key] * 1000]

\* the moving average: alpha * value + (1 - alpha) * average, alpha = 0.1
moving_averages(avg_features, features) ==
    [key \in DOMAIN features |->
        IF key \in DOMAIN avg_features
        THEN (features[key] * 1000 + 9 * avg_features[key]) \div 10
        ELSE features[key] * 1000]

\* the profile _update_baseline_profiles creates for an entity not seen yet
new_profile(event) ==
    [first_seen |-> event.timestamp, last_updated |-> event.timestamp,
     event_count |-> 0, avg_features |-> <<>>, history |-> <<>>]

\* _update_baseline_profiles(event, features): the profiles afterwards
update_baseline_profiles(profiles, event, features) ==
    LET entity_id == event.source_ip
        profile == IF entity_id \in DOMAIN profiles THEN profiles[entity_id]
                   ELSE new_profile(event)
        updated ==
            [first_seen |-> profile.first_seen,
             last_updated |-> event.timestamp,
             event_count |-> profile.event_count + 1,
             avg_features |->
                 IF profile.avg_features = <<>> THEN first_averages(features)
                 ELSE moving_averages(profile.avg_features, features),
             history |-> keep_recent(Append(profile.history,
                             [timestamp |-> event.timestamp,
                              features |-> features]))]
    IN  dict_put(profiles, entity_id, updated)

\* the profiles a later step of analyze_event would read
profiles_after_update(profiles, event, features) ==
    update_baseline_profiles(profiles, event, features)

\* the profiles step 2 of analyze_event reads: _update_baseline_profiles
\* is step 4
profiles_at_analysis(profiles, event, features) == profiles

\* the features of the events analysed
DetectorFeatures ==
    {[threat_indicators |-> ti, content_length |-> cl] :
        ti \in {0, 40}, cl \in {50, 500}}

\* analyze_event(event) of the next event, a second after the last one
AnalyzeEvent ==
    \E source_ip \in {Entities[i] : i \in DOMAIN Entities},
       features \in DetectorFeatures :
        /\ operations < MaxEvents
        /\ LET event == SecurityEvent(source_ip, now, features)
               seen == profiles_at_analysis(baseline_profiles, event, features)
           IN  /\ out' = Result(analyze_event(features, baseline_of(seen, source_ip)))
               /\ baseline_profiles' =
                      update_baseline_profiles(baseline_profiles, event, features)
               /\ event_history' =
                      LastN(Append(event_history, event), event_history_limit)
               /\ observations' =
                      dict_put(observations, source_ip,
                               Append(IF source_ip \in DOMAIN observations
                                      THEN observations[source_ip] ELSE <<>>,
                                      [timestamp |-> now, features |-> features]))
               /\ probe' = [fn |-> "detect", event |-> event]
        /\ operations' = operations + 1
        /\ now' = now + 1
        /\ UNCHANGED <<network_events, incidents_history, active_threats,
                       hash_seed, returned, calls, cb_vars, threat_intel_db,
                       indicators_cache, indicators_db>>

\* the detector after n events of one entity with the same features, one a
\* second, the last of them a second before t
observed(source_ip, n, features, t) ==
    [profiles |->
        IF n = 0 THEN <<>>
        ELSE dict_put(<<>>, source_ip,
                 [first_seen |-> t - n, last_updated |-> t - 1,
                  event_count |-> n,
                  avg_features |-> first_averages(features),
                  history |->
                     [i \in 1..Min(n, history_limit) |->
                         [timestamp |-> t - Min(n, history_limit) - 1 + i,
                          features |-> features]]]),
     events |->
        [i \in 1..Min(n, event_history_limit) |->
            SecurityEvent(source_ip, t - Min(n, event_history_limit) - 1 + i,
                          features)],
     observations |->
        IF n = 0 THEN <<>>
        ELSE dict_put(<<>>, source_ip,
                 [i \in 1..n |-> [timestamp |-> t - n - 1 + i,
                                  features |-> features]])]

\* a detector that has seen nothing, one whose first entity is an event
\* short of the limit of its history, and one an event short of the limit of
\* the global history
DetectorStates ==
    {observed(Entities[1], n, [threat_indicators |-> 0, content_length |-> 50],
              StartOfRun) :
        n \in {0, history_limit - 1, event_history_limit - 1}}

InitDet ==
    /\ network_events = <<>>
    /\ incidents_history = <<>>
    /\ active_threats = <<>>
    /\ now = StartOfRun
    /\ hash_seed = 0
    /\ returned = <<>>
    /\ calls = 0
    /\ probe = NoProbe
    /\ out = NoResult
    /\ InitCallbacks
    /\ threat_intel_db = [malicious_ips |-> malicious_ips,
                          malicious_domains |-> malicious_domains,
                          malware_hashes |-> malware_hashes]
    /\ indicators_cache = <<>>
    /\ indicators_db = <<>>
    /\ operations = 0
    /\ \E detector \in DetectorStates :
          /\ baseline_profiles = detector.profiles
          /\ event_history = detector.events
          /\ observations = detector.observations

NextDet == AnalyzeEvent

SpecDet == InitDet /\ [][NextDet]_vars

-----------------------------------------------------------------------------
(* The indicator stores: update_threat_intelligence of the engine and        *)
(* _parse_threat_feed of the threat analyzer                                 *)

\* a ThreatIndicator as a caller of update_threat_intelligence builds it
ReportedIndicator(type, value, confidence, seen) ==
    [indicator_type |-> type, value |-> value, confidence |-> confidence,
     threat_types |-> <<"malware">>, source |-> "report",
     first_seen |-> seen, last_seen |-> seen, reputation_score |-> 1000 - confidence]

\* the values reported, with their types
ReportedValues ==
    <<<<"ip", "1.2.3.4">>, <<"ip", "5.6.7.8">>, <<"domain", "example.com">>,
      <<"hash", "d41d8cd98f00b204e9800998ecf8427e">>>>

\* an indicator seen now or an hour ago, with a confidence of 0.5 or 0.9
ReportedIndicators(t) ==
    {ReportedIndicator(ReportedValues[v][1], ReportedValues[v][2], c, seen) :
        v \in DOMAIN ReportedValues, c \in {500, 900}, seen \in {t - 3600, t}}

\* the lists given to update_threat_intelligence: one indicator, one
\* indicator twice with different fields, or two indicators of different values
IndicatorUpdates(t) ==
    {<<i>> : i \in ReportedIndicators(t)}
    \cup {<<i, j>> : i \in {x \in ReportedIndicators(t) : x.value = "1.2.3.4"},
                     j \in {x \in ReportedIndicators(t) :
                               x.value \in {"1.2.3.4", "example.com"}
                               /\ x.last_seen = t}}

\* the body of the loop of update_threat_intelligence for one indicator
RECURSIVE update_threat_intelligence(_, _, _)
update_threat_intelligence(indicators, db, cache) ==
    IF indicators = <<>> THEN [db |-> db, cache |-> cache]
    ELSE LET indicator == Head(indicators)
             listed ==
                 CASE indicator.indicator_type = "ip" ->
                        [db EXCEPT !.malicious_ips = @ \cup {indicator.value}]
                   [] indicator.indicator_type = "domain" ->
                        [db EXCEPT !.malicious_domains = @ \cup {indicator.value}]
                   [] indicator.indicator_type = "hash" ->
                        [db EXCEPT !.malware_hashes = @ \cup {indicator.value}]
                   [] OTHER -> db
         IN  update_threat_intelligence(Tail(indicators), listed,
                                        dict_put(cache, indicator.value, indicator))

UpdateThreatIntelligence ==
    \E indicators \in IndicatorUpdates(now) :
        /\ operations < MaxUpdates
        /\ LET after == update_threat_intelligence(indicators, threat_intel_db,
                                                   indicators_cache)
           IN  /\ threat_intel_db' = after.db
               /\ indicators_cache' = after.cache
        /\ operations' = operations + 1
        /\ probe' = [fn |-> "update", indicators |-> indicators]
        /\ UNCHANGED <<network_events, incidents_history, active_threats, now,
                       hash_seed, returned, calls, out, cb_vars, indicators_db,
                       baseline_profiles, event_history, observations>>

\* the lines of a feed, after strip() and split
FeedLines ==
    <<"1.2.3.4", "5.6.7.8", "example.com", "d41d8cd98f00b204e9800998ecf8427e",
      "http://evil.example.com/a", "# blocklist", "", "not an indicator">>

\* _detect_indicator_type(value)
detect_indicator_type(value) ==
    CASE value \in {"1.2.3.4", "5.6.7.8"} -> "ip"
      [] value = "example.com" -> "domain"
      [] value = "d41d8cd98f00b204e9800998ecf8427e" -> "md5"
      [] value = "http://evil.example.com/a" -> "url"
      [] OTHER -> None

\* the ThreatIndicator _parse_threat_feed builds for a line
FeedIndicator(type, line, source, t) ==
    [type |-> type, value |-> line, confidence |-> feed_confidence,
     source |-> source, first_seen |-> t, last_seen |-> t,
     tags |-> <<"threat_feed">>, severity |-> "medium"]

\* _parse_threat_feed(source, content) at time t
RECURSIVE parse_threat_feed(_, _, _, _)
parse_threat_feed(source, lines, db, t) ==
    IF lines = <<>> THEN db
    ELSE LET line == Head(lines)
         IN  IF line = "" \/ line = "# blocklist"
                \/ detect_indicator_type(line) = None
             THEN parse_threat_feed(source, Tail(lines), db, t)
             ELSE parse_threat_feed(source, Tail(lines),
                      dict_put(db, line,
                               FeedIndicator(detect_indicator_type(line), line,
                                             source, t)), t)

\* the feeds downloaded: one line, or two lines of which the first is an address
FeedContents ==
    {<<FeedLines[i]>> : i \in DOMAIN FeedLines}
    \cup {<<FeedLines[i], FeedLines[j]>> : i \in {1, 2}, j \in DOMAIN FeedLines}

ParseThreatFeed ==
    \E content \in FeedContents :
        /\ operations < MaxUpdates
        /\ indicators_db' = parse_threat_feed("feed", content, indicators_db, now)
        /\ operations' = operations + 1
        /\ probe' = [fn |-> "feed", content |-> content]
        /\ UNCHANGED <<network_events, incidents_history, active_threats, now,
                       hash_seed, returned, calls, out, cb_vars, threat_intel_db,
                       indicators_cache, baseline_profiles, event_history,
                       observations>>

\* time passes between two updates
Later ==
    /\ ticks_taken < MaxTicks
    /\ now' = now + 86400
    /\ UNCHANGED <<network_events, incidents_history, active_threats, hash_seed,
                   returned, calls, probe, out, cb_vars, aux_vars>>

NextTi == UpdateThreatIntelligence \/ ParseThreatFeed \/ Later

SpecTi == Init /\ [][NextTi]_vars

-----------------------------------------------------------------------------
(* C24: for every threat level and attack vector the recommended actions are *)
(* exactly monitor and alert; plus block and forensic_capture at high,       *)
(* critical or catastrophic; plus isolate and user_notification at critical  *)
(* or catastrophic; plus emergency_shutdown at catastrophic; plus quarantine *)
(* for malware, block for data_exfiltration, isolate and emergency_shutdown  *)
(* for ransomware; and no action is listed twice.                            *)

actions_of(level, vector) ==
    {"monitor", "alert"}
    \cup (IF LevelRank(level) >= LevelRank("high")
          THEN {"block", "forensic_capture"} ELSE {})
    \cup (IF LevelRank(level) >= LevelRank("critical")
          THEN {"isolate", "user_notification"} ELSE {})
    \cup (IF level = "catastrophic" THEN {"emergency_shutdown"} ELSE {})
    \cup (CASE vector = "malware" -> {"quarantine"}
            [] vector = "data_exfiltration" -> {"block"}
            [] vector = "ransomware" -> {"isolate", "emergency_shutdown"}
            [] OTHER -> {})

C24_RecommendedActions ==
    (probe.fn = "actions" /\ out.done) =>
        /\ {out.value[i] : i \in DOMAIN out.value}
               = actions_of(probe.threat_level, probe.attack_vector)
        /\ \A i, j \in DOMAIN out.value : out.value[i] = out.value[j] => i = j

\* data_exfiltration at level high: block is added twice while the list is built
C24_Witness ==
    /\ probe.fn = "actions" /\ out.done
    /\ probe.threat_level = "high" /\ probe.attack_vector = "data_exfiltration"
    /\ Len(out.value) = 4
    /\ Len(recommended_actions_list("high", "data_exfiltration")) = 5

-----------------------------------------------------------------------------
(* C26: incident ids are unique: over any sequence of analyze_network_traffic *)
(* calls no two incidents of the history carry the same incident_id, so each *)
(* incident of the history has its own entry in the active set.              *)

C26_UniqueIncidentIds ==
    \A i, j \in DOMAIN incidents_history :
        i # j => incidents_history[i].incident_id # incidents_history[j].incident_id

-----------------------------------------------------------------------------
(* C29: the primary attack vector of an indicator-based incident is a        *)
(* function of the event's indicators alone: the threat type occurring most  *)
(* often among them, the same in every run on the same indicator list, also  *)
(* when several threat types are tied for the highest count.                 *)

threat_types_of(incident) ==
    [i \in DOMAIN incident.indicators |-> incident.indicators[i].threat_types[1]]

indicator_based(incident) == incident.title[1] = "suspicious_activity"

C29_PrimaryVectorDeterministic ==
    (probe.fn = "analyze" /\ out.done) =>
        \A k \in DOMAIN out.value :
            indicator_based(out.value[k]) =>
                /\ count_of(threat_types_of(out.value[k]), out.value[k].attack_vector)
                      = SeqMax([i \in DOMAIN out.value[k].indicators |->
                                  count_of(threat_types_of(out.value[k]),
                                           threat_types_of(out.value[k])[i])])
                /\ \A seed \in {0, 1} :
                      out.value[k].attack_vector
                          = primary_vector_of(threat_types_of(out.value[k]), seed)

-----------------------------------------------------------------------------------------------------------------------------------------------------
(* C25: a batch of twenty consecutive events of one source within two        *)
(* minutes, each of 50 KB, all to one destination, is not classified as DDOS *)
(* by the correlator.  As stated: it is flagged through the high-frequency   *)
(* anomaly path with an incident of level low or above.  As the code has it: *)
(* the correlator flags it with one campaign incident of vector APT,         *)
(* confidence 0.8 and level high; an incident carries the anomaly            *)
(* high_frequency_requests only if the engine holds more than fifty events   *)
(* of the source from the last five minutes, the batch included.             *)

scenario_run == probe.fn = "scenario" /\ out.done

campaign_based(incident) == incident.title[1] = "campaign"

high_frequency(incident) ==
    \E i \in DOMAIN incident.indicators :
        incident.indicators[i].value = "high_frequency_requests"

C25_HighFrequencyPath ==
    scenario_run =>
        /\ \A k \in DOMAIN out.value :
              campaign_based(out.value[k]) => out.value[k].attack_vector # "ddos"
        /\ \E k \in DOMAIN out.value :
              /\ high_frequency(out.value[k])
              /\ LevelRank(out.value[k].threat_level) >= LevelRank("low")

C25_CampaignPath ==
    scenario_run =>
        /\ Cardinality({k \in DOMAIN out.value : campaign_based(out.value[k])}) = 1
        /\ \A k \in DOMAIN out.value :
              campaign_based(out.value[k]) =>
                  /\ out.value[k].attack_vector = "apt"
                  /\ out.value[k].confidence_score = 800
                  /\ out.value[k].threat_level = "high"
        /\ (\E k \in DOMAIN out.value : high_frequency(out.value[k]))
              <=> probe.earlier + probe.shape.n > 50

\* the batch alone, spread over two minutes: a campaign of level high and no
\* high-frequency anomaly
C25_Witness ==
    /\ scenario_run /\ probe.shape.span = 120 /\ probe.earlier = 0
    /\ \E k \in DOMAIN out.value :
          campaign_based(out.value[k]) /\ out.value[k].threat_level = "high"
    /\ \A k \in DOMAIN out.value : ~high_frequency(out.value[k])

\* with thirty-one earlier events the batch does take the high-frequency path
C25_HighFrequencyReached ==
    /\ scenario_run /\ probe.earlier = 31
    /\ \E k \in DOMAIN out.value : high_frequency(out.value[k])

-----------------------------------------------------------------------------
(* C30: a campaign incident produced by correlation has the confidence       *)
(* min(0.8, eventCount/20), hence the level medium or high, never critical   *)
(* or catastrophic; so processing a campaign incident never invokes the      *)
(* voice callback, which is invoked only for incidents of level critical or  *)
(* catastrophic.                                                             *)

events_of(task, source_ip) ==
    Cardinality({i \in DOMAIN tasks[task].events :
                    tasks[task].events[i].source_ip = source_ip})

C30_CampaignNeverVoiced ==
    \A d \in DOMAIN dispatched :
        LET incident == dispatched[d].incident
        IN  /\ campaign_based(incident) =>
                  /\ incident.confidence_score * 20
                        = Min(800 * 20,
                              events_of(dispatched[d].task, incident.title[2]) * 1000)
                  /\ incident.threat_level \in {"medium", "high"}
                  /\ "voice" \notin dispatched[d].invoked
            /\ "voice" \in dispatched[d].invoked =>
                  incident.threat_level \in {"critical", "catastrophic"}

\* a campaign incident processed to its end with both callbacks registered,
\* and a critical incident for which the voice callback was invoked
C30_Witness ==
    /\ \E d \in DOMAIN dispatched :
          /\ campaign_based(dispatched[d].incident)
          /\ dispatched[d].registered.voice # None
          /\ dispatched[d].invoked = {"alert"}
          /\ tasks[dispatched[d].task].pc = "done"
    /\ \E d \in DOMAIN dispatched : "voice" \in dispatched[d].invoked

-----------------------------------------------------------------------------
(* C21: over any sequence of indicator upserts and feed loads the confidence *)
(* stored for an indicator value never decreases: after an upsert of an      *)
(* indicator whose value is already stored, the stored confidence is the     *)
(* greater of the old and the new one, and so is the stored last_seen.       *)

never_decreases(store, store_after) ==
    \A value \in DOMAIN store :
        /\ value \in DOMAIN store_after
        /\ store_after[value].confidence >= store[value].confidence
        /\ store_after[value].last_seen >= store[value].last_seen

merged_by_max(store, store_after, indicator) ==
    indicator.value \in DOMAIN store =>
        /\ store_after[indicator.value].confidence
              = Max(store[indicator.value].confidence, indicator.confidence)
        /\ store_after[indicator.value].last_seen
              = Max(store[indicator.value].last_seen, indicator.last_seen)

C21_ConfidenceNeverDecreases ==
    [][/\ never_decreases(indicators_cache, indicators_cache')
       /\ never_decreases(indicators_db, indicators_db')
       /\ (operations' = operations + 1 /\ probe'.fn = "update"
            /\ Len(probe'.indicators) = 1) =>
              merged_by_max(indicators_cache, indicators_cache',
                            probe'.indicators[1])]_vars

-----------------------------------------------------------------------------
(* C22: the indicator store is bounded: after every upsert or feed load its  *)
(* size is at most the capacity, the entries with the oldest last_seen being *)
(* removed when an insertion would exceed it.                                *)

C22_StoreBounded ==
    /\ Cardinality(DOMAIN indicators_cache) <= StoreCapacity
    /\ Cardinality(DOMAIN indicators_db) <= StoreCapacity

-----------------------------------------------------------------------------
(* C23: the first observation ever of an entity, for which no baseline       *)
(* profile is stored, yields the baseline deviation 0, the anomaly score 0   *)
(* and the classification normal, whatever the features and the count of     *)
(* threat indicators of the event, and so no threat prediction; after it the *)
(* entity has a baseline whose averages are the features of that event.      *)

DetectStep == operations' = operations + 1 /\ probe'.fn = "detect"

C23_FirstObservationNormal ==
    [][(DetectStep /\ probe'.event.source_ip \notin DOMAIN baseline_profiles) =>
          LET entity_id == probe'.event.source_ip
              features == probe'.event.features
          IN  /\ out'.value.behavior.baseline_deviation = 0
              /\ out'.value.behavior.anomaly_score = 0
              /\ out'.value.behavior.pattern = "normal"
              /\ ~out'.value.predicted
              /\ entity_id \in DOMAIN baseline_profiles'
              /\ baseline_profiles'[entity_id].avg_features
                    = [threat_indicators |-> features.threat_indicators * 1000,
                       content_length |-> features.content_length * 1000]]_vars

\* a first observation with forty threat indicators, of the second entity,
\* after the first entity was observed
C23_Witness ==
    /\ probe.fn = "detect" /\ out.done
    /\ probe.event.features.threat_indicators = 40
    /\ Len(observations[probe.event.source_ip]) = 1
    /\ DOMAIN baseline_profiles = {Entities[1], Entities[2]}
    /\ out.value.behavior.pattern = "normal"

-----------------------------------------------------------------------------
(* C27: for every observation of an entity that has a baseline already,      *)
(* analyze_event computes the deviation and the classification against the   *)
(* averages as they were before this observation and updates the baseline    *)
(* only afterwards; each event analysed updates the baseline of its entity   *)
(* exactly once (event_count grows by one, one history entry is appended)    *)
(* and leaves the baseline of every other entity unchanged.                  *)

C27_AnalysisBeforeUpdate ==
    [][DetectStep =>
          LET entity_id == probe'.event.source_ip
              features == probe'.event.features
              known == entity_id \in DOMAIN baseline_profiles
              before == baseline_profiles[entity_id]
              after == baseline_profiles'[entity_id]
              entry == [timestamp |-> probe'.event.timestamp, features |-> features]
          IN  /\ known =>
                    LET deviation == calculate_baseline_deviation(features,
                                         [history |-> Len(before.history),
                                          avg_features |-> before.avg_features])
                    IN  /\ out'.value.behavior.baseline_deviation = deviation
                        /\ out'.value.behavior.pattern
                              = classify_behavior_pattern(deviation, features)
              /\ DOMAIN baseline_profiles' = DOMAIN baseline_profiles \cup {entity_id}
              /\ after.event_count = (IF known THEN before.event_count ELSE 0) + 1
              /\ after.history[Len(after.history)] = entry
              /\ LET earlier == SubSeq(after.history, 1, Len(after.history) - 1)
                      old == IF known THEN before.history ELSE <<>>
                  IN  earlier = old \/ earlier = Tail(old)
              /\ \A other \in DOMAIN baseline_profiles \ {entity_id} :
                    baseline_profiles'[other] = baseline_profiles[other]]_vars

\* an entity observed again with features away from its averages, while
\* another entity has a baseline too
C27_Witness ==
    /\ probe.fn = "detect" /\ out.done
    /\ Len(observations[probe.event.source_ip]) >= 2
    /\ out.value.behavior.baseline_deviation > 0
    /\ DOMAIN baseline_profiles = {Entities[1], Entities[2]}

-----------------------------------------------------------------------------
(* C28: after every baseline update the recent history of an entity holds at *)
(* most 1000 entries and is exactly the most recent min(event_count, 1000)   *)
(* observations of the entity in arrival order, the oldest being dropped     *)
(* first; and the global event history never exceeds 10000 events.           *)

C28_HistoryBounded ==
    /\ \A entity_id \in DOMAIN baseline_profiles :
          LET profile == baseline_profiles[entity_id]
              seen == observations[entity_id]
              kept == Min(profile.event_count, 1000)
          IN  /\ Len(profile.history) <= 1000
              /\ profile.event_count = Len(seen)
              /\ profile.history = SubSeq(seen, Len(seen) - kept + 1, Len(seen))
    /\ Len(event_history) <= 10000

\* two more events of an entity whose history and the global history were
\* full: the oldest entries were dropped
C28_Witness ==
    /\ operations = 2
    /\ \E entity_id \in DOMAIN baseline_profiles :
          /\ baseline_profiles[entity_id].event_count = 10001
          /\ Len(baseline_profiles[entity_id].history) = 1000
          /\ baseline_profiles[entity_id].history[1].timestamp
                = StartOfRun - 998
    /\ Len(event_history) = 10000

====
